---- MODULE Spec2Model ----
(***************************************************************************)
(* Book recommendation explorer: the similarity graph built by             *)
(* bookGraphData (src/app/page.tsx) from the fetched books, with the       *)
(* cosine similarity of calculateSimilarity computed in IEEE-754 double    *)
(* arithmetic, the arithmetic of a TypeScript `number`.                    *)
(***************************************************************************)
EXTENDS Integers, Sequences, FiniteSets, TLC

(***************************************************************************)
(* Natural numbers of arbitrary size, as little-endian sequences of limbs  *)
(* in base 2^15 without leading zero limbs; <<>> is zero.  They carry the  *)
(* 53-bit significands of doubles and their 106-bit products.              *)
(***************************************************************************)
RECURSIVE BNorm(_)
BNorm(s) ==
  IF Len(s) = 0 THEN s
  ELSE IF s[Len(s)] = 0 THEN BNorm(SubSeq(s, 1, Len(s) - 1)) ELSE s

RECURSIVE BFromInt(_)
BFromInt(n) == IF n = 0 THEN <<>> ELSE <<n % 32768>> \o BFromInt(n \div 32768)

RECURSIVE BToInt(_)
BToInt(s) == IF Len(s) = 0 THEN 0 ELSE s[1] + 32768 * BToInt(Tail(s))

Limb(s, i) == IF i <= Len(s) THEN s[i] ELSE 0

\* the limbs of a + b from limb i on, t being the sum at limb i with its carry
RECURSIVE BAddC(_, _, _, _)
BAddC(a, b, i, t) ==
  IF i > Len(a) /\ i > Len(b) THEN (IF t = 0 THEN <<>> ELSE <<t>>)
  ELSE <<t % 32768>>
       \o BAddC(a, b, i + 1, Limb(a, i + 1) + Limb(b, i + 1) + (t \div 32768))

BAdd(a, b) == BAddC(a, b, 1, Limb(a, 1) + Limb(b, 1))

\* the limbs of a - b from limb i on, t being the difference at limb i with
\* its borrow
RECURSIVE BSubC(_, _, _, _)
BSubC(a, b, i, t) ==
  IF i > Len(a) THEN <<>>
  ELSE <<t % 32768>>
       \o BSubC(a, b, i + 1,
                Limb(a, i + 1) - Limb(b, i + 1) - (IF t < 0 THEN 1 ELSE 0))

\* a - b for a >= b
BSub(a, b) == BNorm(BSubC(a, b, 1, Limb(a, 1) - Limb(b, 1)))

RECURSIVE BCmpAt(_, _, _)
BCmpAt(a, b, i) ==
  IF i = 0 THEN 0
  ELSE IF a[i] # b[i] THEN (IF a[i] < b[i] THEN -1 ELSE 1)
  ELSE BCmpAt(a, b, i - 1)

\* -1, 0, 1 as a < b, a = b, a > b
BCmp(a, b) ==
  IF Len(a) # Len(b) THEN (IF Len(a) < Len(b) THEN -1 ELSE 1)
  ELSE BCmpAt(a, b, Len(a))

\* the limbs of a * k from limb i on, c being the carry into limb i
RECURSIVE BMulLimb(_, _, _, _)
BMulLimb(a, k, i, c) ==
  IF i > Len(a) THEN (IF c = 0 THEN <<>> ELSE <<c>>)
  ELSE <<(a[i] * k + c) % 32768>>
       \o BMulLimb(a, k, i + 1, (a[i] * k + c) \div 32768)

RECURSIVE BMulFrom(_, _, _)
BMulFrom(a, b, j) ==
  IF j > Len(b) THEN <<>>
  ELSE BAdd(BMulLimb(a, b[j], 1, 0), <<0>> \o BMulFrom(a, b, j + 1))

BMul(a, b) == BNorm(BMulFrom(a, b, 1))

\* 2^s
BPow2(s) ==
  [i \in 1..((s \div 15) + 1) |-> IF i = (s \div 15) + 1 THEN 2^(s % 15) ELSE 0]

\* a * 2^s
BShl(a, s) ==
  IF Len(a) = 0 THEN a
  ELSE [i \in 1..(s \div 15) |-> 0] \o BMulLimb(a, 2^(s % 15), 1, 0)

\* floor(d / 2^r) for r < 15
BShrBits(d, r) ==
  BNorm([i \in 1..Len(d) |->
          (d[i] \div 2^r) + (Limb(d, i + 1) % 2^r) * 2^(15 - r)])

\* floor(a / 2^s)
BShr(a, s) ==
  BShrBits(IF s \div 15 >= Len(a) THEN <<>>
           ELSE SubSeq(a, (s \div 15) + 1, Len(a)), s % 15)

BBitLen(a) ==
  IF Len(a) = 0 THEN 0
  ELSE 15 * (Len(a) - 1)
       + CHOOSE k \in 1..15 : 2^(k - 1) <= a[Len(a)] /\ a[Len(a)] < 2^k

BIsOdd(a) == Len(a) > 0 /\ a[1] % 2 = 1

\* Bits i down to lo of a quotient by d: st.q is the quotient so far and
\* st.p = st.q * d; bit i is set when cand = (st.q + 2^i) * d is at most n.
RECURSIVE BDivStep(_, _, _, _, _)
RECURSIVE BDivBit(_, _, _, _, _, _)
BDivBit(n, d, st, i, lo, cand) ==
  IF BCmp(cand, n) <= 0
  THEN BDivStep(n, d, [q |-> BAdd(st.q, BPow2(i)), p |-> cand], i - 1, lo)
  ELSE BDivStep(n, d, st, i - 1, lo)

BDivStep(n, d, st, i, lo) ==
  IF i < lo THEN st ELSE BDivBit(n, d, st, i, lo, BAdd(st.p, BShl(d, i)))

\* the quotient eight bits at a time, from bit i down
RECURSIVE BDivFrom(_, _, _, _)
RECURSIVE BDivChunk(_, _, _, _)
BDivChunk(n, d, st, lo) ==
  IF Len(st.q) >= 0 THEN BDivFrom(n, d, st, lo - 1) ELSE st

BDivFrom(n, d, st, i) ==
  IF i < 0 THEN st
  ELSE IF i >= 7 THEN BDivChunk(n, d, BDivStep(n, d, st, i, i - 7), i - 7)
  ELSE BDivStep(n, d, st, i, 0)

\* q = floor(n / d) and p = q * d, for d > 0
BDivFloor(n, d) ==
  IF BCmp(n, d) < 0 THEN [q |-> <<>>, p |-> <<>>]
  ELSE BDivFrom(n, d, [q |-> <<>>, p |-> <<>>], BBitLen(n) - BBitLen(d))

\* Bits i down to lo of a square root: st.q is the root so far and
\* st.p = st.q^2; bit i is set when cand = (st.q + 2^i)^2 is at most n.
RECURSIVE BSqrtStep(_, _, _, _)
RECURSIVE BSqrtBit(_, _, _, _, _)
BSqrtBit(n, st, i, lo, cand) ==
  IF BCmp(cand, n) <= 0
  THEN BSqrtStep(n, [q |-> BAdd(st.q, BPow2(i)), p |-> cand], i - 1, lo)
  ELSE BSqrtStep(n, st, i - 1, lo)

BSqrtStep(n, st, i, lo) ==
  IF i < lo THEN st
  ELSE BSqrtBit(n, st, i, lo,
                BAdd(st.p, BAdd(BShl(st.q, i + 1), BPow2(2 * i))))

RECURSIVE BSqrtFrom(_, _, _)
RECURSIVE BSqrtChunk(_, _, _)
BSqrtChunk(n, st, lo) ==
  IF Len(st.q) >= 0 THEN BSqrtFrom(n, st, lo - 1) ELSE st

BSqrtFrom(n, st, i) ==
  IF i < 0 THEN st
  ELSE IF i >= 7 THEN BSqrtChunk(n, BSqrtStep(n, st, i, i - 7), i - 7)
  ELSE BSqrtStep(n, st, i, 0)

\* q = floor(sqrt(n)) and p = q^2
BSqrtFloor(n) == BSqrtFrom(n, [q |-> <<>>, p |-> <<>>], BBitLen(n) \div 2)

(***************************************************************************)
(* IEEE-754 doubles.  A finite double is sign, significand m and exponent  *)
(* e with value m * 2^e; a non-zero one is normalised to a significand of  *)
(* exactly MantBits bits, so equal numbers are equal records.  Every       *)
(* operation rounds the exact result to nearest, ties to even.  The        *)
(* exponent is unbounded: the values of this program (vector components    *)
(* in [0,1], five-term sums, their roots and quotients) stay far from the  *)
(* overflow and subnormal ranges.                                          *)
(***************************************************************************)
MantBits == 53

NaN == [k |-> "nan"]
Infinity(neg) == [k |-> "inf", neg |-> neg]
Zero == [k |-> "fin", neg |-> FALSE, m |-> <<>>, e |-> 0]

\* the rounded significand q2, renormalised when the rounding carried out
FRoundCarry(neg, q2, E) ==
  IF BBitLen(q2) > MantBits
  THEN [k |-> "fin", neg |-> neg, m |-> BShr(q2, 1), e |-> E + 1]
  ELSE [k |-> "fin", neg |-> neg, m |-> q2, e |-> E]

\* q = floor(M / 2^s) rounded by c, the comparison of the remainder with a
\* half: up when above, to even on a tie
FRoundTie(neg, E, q, c) ==
  FRoundCarry(neg,
              IF c > 0 \/ (c = 0 /\ BIsOdd(q)) THEN BAdd(q, <<1>>) ELSE q, E)

FRoundShift(neg, M, E, s, q) ==
  FRoundTie(neg, E + s, q, BCmp(BSub(M, BShl(q, s)), BPow2(s - 1)))

\* M of L bits
FRoundLen(neg, M, E, L) ==
  IF L <= MantBits
  THEN [k |-> "fin", neg |-> neg, m |-> BShl(M, MantBits - L),
        e |-> E - (MantBits - L)]
  ELSE FRoundShift(neg, M, E, L - MantBits, BShr(M, L - MantBits))

\* the double nearest to M * 2^E (sign neg), for a natural M
FRound(neg, M, E) ==
  IF Len(M) = 0 THEN Zero ELSE FRoundLen(neg, M, E, BBitLen(M))

\* the double of an integer literal
FromInt(n) == FRound(n < 0, BFromInt(IF n < 0 THEN -n ELSE n), 0)

IsZero(x) == x.k = "fin" /\ Len(x.m) = 0

\* magnitudes of non-zero finite doubles: -1, 0, 1
MagCmp(x, y) ==
  IF x.e # y.e THEN (IF x.e < y.e THEN -1 ELSE 1) ELSE BCmp(x.m, y.m)

\* x < y for finite doubles
FinLt(x, y) ==
  IF IsZero(x) THEN ~IsZero(y) /\ ~y.neg
  ELSE IF IsZero(y) THEN x.neg
  ELSE IF x.neg # y.neg THEN x.neg
  ELSE (IF x.neg THEN 1 ELSE -1) = MagCmp(x, y)

\* x < y, x > y, x === y of doubles; all false on NaN
FLt(x, y) ==
  /\ x.k # "nan" /\ y.k # "nan"
  /\ IF x.k = "inf" \/ y.k = "inf"
     THEN x # y /\ ((x.k = "inf" /\ x.neg) \/ (y.k = "inf" /\ ~y.neg))
     ELSE FinLt(x, y)

FGt(x, y) == FLt(y, x)

FEq(x, y) ==
  x.k # "nan" /\ y.k # "nan" /\ (x = y \/ (IsZero(x) /\ IsZero(y)))

\* the sum of the significands mx and my, with signs, at the exponent e
FAddAligned(xneg, yneg, mx, my, e) ==
  IF xneg = yneg THEN FRound(xneg, BAdd(mx, my), e)
  ELSE FRound(IF BCmp(mx, my) >= 0 THEN xneg ELSE yneg,
              IF BCmp(mx, my) >= 0 THEN BSub(mx, my) ELSE BSub(my, mx), e)

FAddAt(x, y, e) ==
  FAddAligned(x.neg, y.neg, BShl(x.m, x.e - e), BShl(y.m, y.e - e), e)

\* x + y
FAdd(x, y) ==
  IF x.k = "nan" \/ y.k = "nan" THEN NaN
  ELSE IF x.k = "inf" THEN (IF y.k = "inf" /\ y.neg # x.neg THEN NaN ELSE x)
  ELSE IF y.k = "inf" THEN y
  ELSE IF IsZero(x) THEN (IF IsZero(y) THEN Zero ELSE y)
  ELSE IF IsZero(y) THEN x
  ELSE FAddAt(x, y, IF x.e < y.e THEN x.e ELSE y.e)

\* x * y
FMul(x, y) ==
  IF x.k = "nan" \/ y.k = "nan" THEN NaN
  ELSE IF x.k = "inf" \/ y.k = "inf"
       THEN (IF IsZero(x) \/ IsZero(y) THEN NaN ELSE Infinity(x.neg # y.neg))
  ELSE IF IsZero(x) \/ IsZero(y) THEN Zero
  ELSE FRound(x.neg # y.neg, BMul(x.m, y.m), x.e + y.e)

\* the double nearest to a root or quotient known by r.q, its floor at one
\* more bit than a significand holds, and r.p, the part of n it accounts for:
\* a last bit is set when something of n is left over
FRoundSticky(neg, n, r, E) ==
  FRound(neg, BAdd(BShl(r.q, 1), IF BCmp(r.p, n) = 0 THEN <<>> ELSE <<1>>), E)

FDivScaled(x, y, n) ==
  FRoundSticky(x.neg # y.neg, n, BDivFloor(n, y.m),
               x.e - y.e - (MantBits + 3) - 1)

\* x / y
FDiv(x, y) ==
  IF x.k = "nan" \/ y.k = "nan" THEN NaN
  ELSE IF x.k = "inf" THEN (IF y.k = "inf" THEN NaN ELSE Infinity(x.neg # y.neg))
  ELSE IF y.k = "inf" THEN Zero
  ELSE IF IsZero(y) THEN (IF IsZero(x) THEN NaN ELSE Infinity(x.neg # y.neg))
  ELSE IF IsZero(x) THEN Zero
  ELSE FDivScaled(x, y, BShl(x.m, MantBits + 3))

FSqrtScaled(x, sh, n) ==
  FRoundSticky(FALSE, n, BSqrtFloor(n), ((x.e - sh) \div 2) - 1)

FSqrtShift(x, sh) == FSqrtScaled(x, sh, BShl(x.m, sh))

\* Math.sqrt(x)
FSqrt(x) ==
  IF x.k = "nan" THEN NaN
  ELSE IF IsZero(x) THEN Zero
  ELSE IF x.neg THEN NaN
  ELSE IF x.k = "inf" THEN x
  ELSE FSqrtShift(x, MantBits + 5 + ((x.e + MantBits + 5) % 2))

\* q = floor(|x|) of a double with a fraction
FCeilFrac(x, q) ==
  IF x.neg THEN -BToInt(q)
  ELSE BToInt(q) + (IF BCmp(BShl(q, -x.e), x.m) = 0 THEN 0 ELSE 1)

\* Math.ceil(x) of a finite double of small magnitude, as an integer
FCeil(x) ==
  IF IsZero(x) THEN 0
  ELSE IF x.e >= 0 THEN (IF x.neg THEN -1 ELSE 1) * BToInt(BShl(x.m, x.e))
  ELSE FCeilFrac(x, BShr(x.m, -x.e))

\* Math.floor(x) of a finite non-negative double of small magnitude
FFloor(x) ==
  IF IsZero(x) THEN 0
  ELSE IF x.e >= 0 THEN BToInt(BShl(x.m, x.e))
  ELSE BToInt(BShr(x.m, -x.e))

\* -x
FNeg(x) ==
  IF x.k = "nan" \/ IsZero(x) THEN x ELSE [x EXCEPT !.neg = ~x.neg]

\* x - y
FSub(x, y) == FAdd(x, FNeg(y))

\* Math.abs(x)
FAbs(x) == IF x.k = "nan" \/ IsZero(x) THEN x ELSE [x EXCEPT !.neg = FALSE]

\* floor(2 * x) of a finite double of small magnitude, as an integer
FloorTwice(x) ==
  IF IsZero(x) THEN 0
  ELSE IF x.e >= -1
       THEN (IF x.neg THEN -1 ELSE 1) * BToInt(BShl(x.m, x.e + 1))
       ELSE IF x.neg THEN -FCeil([x EXCEPT !.neg = FALSE, !.e = x.e + 1])
       ELSE BToInt(BShr(x.m, -x.e - 1))

\* Math.floor(x) of a finite double of small magnitude: the percentage cut
\* off instead of rounded
MathFloor(x) == FloorTwice(x) \div 2

\* Math.round(x) of a finite double of small magnitude: floor(x + 1/2),
\* a half rounding up
MathRound(x) == (FloorTwice(x) + 1) \div 2

(***************************************************************************)
(* Sentiment vectors.  A score is written here in tenths (9 for 0.9) and   *)
(* Num gives the double the program holds for that decimal number.         *)
(***************************************************************************)
MaxBooks == 7
NumSimVecs == 10
ScenarioBooks == 5

Tenth(t) == FDiv(FromInt(t), FromInt(10))

Num == [t \in 0..15 |-> Tenth(t)]

SentimentScores(t) ==
  [moody |-> t[1], scientific |-> t[2], optimistic |-> t[3],
   philosophical |-> t[4], adventurous |-> t[5]]

VecPool ==
  << <<10, 0, 0, 0, 0>>, <<0, 10, 0, 0, 0>>, <<10, 10, 0, 0, 0>>,
     <<0, 0, 10, 0, 0>>, <<0, 0, 0, 0, 0>>, <<5, 5, 5, 5, 5>>,
     <<1, 1, 1, 9, 1>>, <<10, 10, 10, 0, 0>>, <<3, 7, 2, 9, 4>>,
     <<8, 2, 6, 1, 5>>, <<10, 10, 10, 10, 10>>, <<0, 0, 0, 0, 1>> >>

Vectors(k) == {SentimentScores(VecPool[i]) : i \in 1..k}

ZeroVector == SentimentScores(<<0, 0, 0, 0, 0>>)

\* aVec.reduce((sum, val, i) => sum + val * bVec[i], 0)
RECURSIVE DotFrom(_, _, _, _)
DotFrom(aVec, bVec, i, sum) ==
  IF i > Len(aVec) THEN sum
  ELSE DotFrom(aVec, bVec, i + 1, FAdd(sum, FMul(aVec[i], bVec[i])))

\* the guard of calculateSimilarity without the test of magnitudeB
ZeroMagnitudeA(magnitudeA, magnitudeB) == FEq(magnitudeA, Zero)

\* magnitudeA === 0 || magnitudeB === 0
ZeroMagnitude(magnitudeA, magnitudeB) ==
  FEq(magnitudeA, Zero) \/ FEq(magnitudeB, Zero)

\* the denominator with magnitudeA in the place of magnitudeB
DenominatorAA(magnitudeA, magnitudeB) == FMul(magnitudeA, magnitudeA)

\* magnitudeA * magnitudeB
Denominator(magnitudeA, magnitudeB) == FMul(magnitudeA, magnitudeB)

\* magnitudeA === 0 || magnitudeB === 0 ? 0 : dotProduct / (magnitudeA * magnitudeB)
Cosine(dotProduct, magnitudeA, magnitudeB) ==
  IF ZeroMagnitude(magnitudeA, magnitudeB) THEN Zero
  ELSE FDiv(dotProduct, Denominator(magnitudeA, magnitudeB))

\* Math.sqrt(vec.reduce((sum, val) => sum + val * val, 0))
Magnitude(vec) == FSqrt(DotFrom(vec, vec, 1, Zero))

SimilarityOf(aVec, bVec) ==
  Cosine(DotFrom(aVec, bVec, 1, Zero), Magnitude(aVec), Magnitude(bVec))

\* [a.moody, a.scientific, a.optimistic, a.philosophical, a.adventurous]
ScoreVector(a) ==
  [i \in 1..5 |->
     Num[<<a.moody, a.scientific, a.optimistic, a.philosophical,
           a.adventurous>>[i]]]

calculateSimilarity(a, b) == SimilarityOf(ScoreVector(a), ScoreVector(b))

\* the vectors of the books of the build: two orthogonal profiles, so that
\* a pair of books has similarity 1 or 0
BuildVectors ==
  {SentimentScores(<<10, 0, 0, 0, 0>>), SentimentScores(<<0, 10, 0, 0, 0>>)}

\* the vectors of the scenario of section 8 of the specification
ScenarioVectors ==
  {SentimentScores(<<10, 0, 0, 0, 0>>), SentimentScores(<<0, 10, 0, 0, 0>>),
   SentimentScores(<<0, 0, 10, 0, 0>>)}

\* three profiles with similarities 0, 1/sqrt(2) and 1 among them
GradedVectors ==
  {SentimentScores(<<10, 0, 0, 0, 0>>), SentimentScores(<<0, 10, 0, 0, 0>>),
   SentimentScores(<<10, 10, 0, 0, 0>>)}

\* a valid profile and one with a score of 1.5, outside [0, 1]
InvalidVectors ==
  {SentimentScores(<<10, 0, 0, 0, 0>>), SentimentScores(<<0, 15, 0, 0, 0>>)}

\* calculateSimilarity on the vectors of the model, computed once
SimilarityTable ==
  LET V == Vectors(NumSimVecs) \cup BuildVectors \cup ScenarioVectors
             \cup InvalidVectors \cup GradedVectors
  IN  [a \in V |-> [b \in V |-> calculateSimilarity(a, b)]]

Similarity(a, b) == SimilarityTable[a][b]

(***************************************************************************)
(* calculateGenreSimilarity.  A weight is written in hundredths (70 for    *)
(* 0.7).                                                                   *)
(***************************************************************************)
Entry(weight, reason) == [weight |-> weight, reason |-> reason]

\* the static table of calculateGenreSimilarity
similarities ==
  ("Sci-Fi" :>
     (("Non-Fiction" :> Entry(70, "Scientific exploration and intellectual curiosity"))
      @@ ("Literary Fiction" :> Entry(60, "Dystopian themes and social commentary"))
      @@ ("Fantasy" :> Entry(50, "World-building and speculative elements"))
      @@ ("Mystery" :> Entry(40, "Problem-solving and discovery"))
      @@ ("Philosophy" :> Entry(75, "Existential questions and human nature"))))
  @@ ("Non-Fiction" :>
     (("Philosophy" :> Entry(85, "Pursuit of knowledge and understanding"))
      @@ ("Literary Fiction" :> Entry(50, "Human condition and historical context"))
      @@ ("Mystery" :> Entry(45, "Investigation and analysis"))
      @@ ("Fantasy" :> Entry(30, "Cultural mythology and archetypes"))))
  @@ ("Literary Fiction" :>
     (("Philosophy" :> Entry(80, "Deep character study and moral questions"))
      @@ ("Mystery" :> Entry(55, "Psychological exploration"))
      @@ ("Fantasy" :> Entry(45, "Narrative storytelling traditions"))))
  @@ ("Fantasy" :>
     (("Mystery" :> Entry(50, "Quest narratives and hidden truths"))
      @@ ("Philosophy" :> Entry(55, "Mythological wisdom and hero journeys"))))
  @@ ("Mystery" :>
     ("Philosophy" :> Entry(50, "Search for truth and meaning")))

\* the value of a missing property
Undefined == [undefined |-> TRUE]

\* similarities[genreA]?.[genreB]
Lookup(genreA, genreB) ==
  IF genreA \in DOMAIN similarities /\ genreB \in DOMAIN similarities[genreA]
  THEN similarities[genreA][genreB]
  ELSE Undefined

\* x || y for objects and undefined
OrElse(x, y) == IF x = Undefined THEN y ELSE x

calculateGenreSimilarity(genreA, genreB) ==
  IF genreA = genreB THEN Entry(100, "Same genre")
  ELSE OrElse(OrElse(Lookup(genreA, genreB), Lookup(genreB, genreA)),
              Entry(30, "Shared literary heritage"))

(***************************************************************************)
(* generateConnectionReason.  A text is a sequence of pieces, the literal  *)
(* parts of the template strings and the values put between them, so that  *)
(* a name or a percentage in the text is one piece of it.                  *)
(***************************************************************************)
\* { name, diff: Math.abs(a.x - b.x), avg: (a.x + b.x) / 2 }
Dimension(name, aVal, bVal) ==
  [name |-> name, diff |-> FAbs(FSub(aVal, bVal)),
   avg |-> FDiv(FAdd(aVal, bVal), FromInt(2))]

Dimensions(a, b) ==
  << Dimension("moody atmosphere", Num[a.moody], Num[b.moody]),
     Dimension("scientific rigor", Num[a.scientific], Num[b.scientific]),
     Dimension("optimistic outlook", Num[a.optimistic], Num[b.optimistic]),
     Dimension("philosophical depth", Num[a.philosophical],
               Num[b.philosophical]),
     Dimension("adventurous spirit", Num[a.adventurous], Num[b.adventurous]) >>

\* (x, y) => (x.diff - y.diff) + (y.avg - x.avg) * 0.5
CompareDimensions(x, y) ==
  FAdd(FSub(x.diff, y.diff), FMul(FSub(y.avg, x.avg), Num[5]))

\* x put behind the last entry that the comparator does not order after it:
\* Array.prototype.sort is stable
RECURSIVE InsertDimension(_, _, _)
InsertDimension(sorted, x, k) ==
  IF k = 0 THEN <<x>> \o sorted
  ELSE IF FGt(CompareDimensions(sorted[k], x), Zero)
       THEN InsertDimension(sorted, x, k - 1)
       ELSE SubSeq(sorted, 1, k) \o <<x>> \o SubSeq(sorted, k + 1, Len(sorted))

RECURSIVE SortDimensionsFrom(_, _, _)
SortDimensionsFrom(ds, k, sorted) ==
  IF k > Len(ds) THEN sorted
  ELSE SortDimensionsFrom(ds, k + 1, InsertDimension(sorted, ds[k], Len(sorted)))

\* dimensions.sort(...)
SortDimensions(ds) == SortDimensionsFrom(ds, 1, <<>>)

\* the test with the average 0.5 let through
StrongOrEven(avg) == ~FLt(avg, Num[5])

\* avg > 0.5
Strong(avg) == FGt(avg, Num[5])

\* the two conditional reasons.push(...)
Reasons(topMatches) ==
  (IF Strong(topMatches[1].avg)
   THEN << <<"Both share strong ", topMatches[1].name>> >> ELSE <<>>)
  \o (IF Strong(topMatches[2].avg)
      THEN << <<"similar ", topMatches[2].name>> >> ELSE <<>>)

\* reasons.join(" and ")
RECURSIVE JoinFrom(_, _, _)
JoinFrom(reasons, k, text) ==
  IF k > Len(reasons) THEN text
  ELSE JoinFrom(reasons, k + 1,
                text \o (IF k > 1 THEN <<" and ">> ELSE <<>>) \o reasons[k])

\* the percentage with Math.floor in the place of Math.round
PercentFloor(x) == IF x.k = "nan" THEN "NaN" ELSE ToString(MathFloor(x))

\* `${Math.round(similarity * 100)}` for the product x
Percent(x) == IF x.k = "nan" THEN "NaN" ELSE ToString(MathRound(x))

\* lines 134-138
ReasonText(reasons, percent) ==
  IF Len(reasons) = 0
  THEN <<"These works share a ", percent,
         "% thematic similarity based on their emotional and intellectual profiles.">>
  ELSE JoinFrom(reasons, 1, <<>>)
         \o <<". Overall ", percent, "% thematic match.">>

\* dimensions.slice(0, 2) of the five dimensions
TopMatches(ds) == SubSeq(ds, 1, 2)

generateConnectionReason(bookA, bookB, similarity) ==
  ReasonText(Reasons(TopMatches(SortDimensions(Dimensions(bookA, bookB)))),
             Percent(FMul(similarity, FromInt(100))))

(***************************************************************************)
(* State.  genreBooks and highlightedBookId are the component state read   *)
(* by the bookGraphData memo; the others are the locals of one run of the  *)
(* memo.  Array index k of the program is index k + 1 here.  A book id is  *)
(* a positive number and 0 stands for a null highlightedBookId.            *)
(***************************************************************************)
VARIABLES genreBooks, highlightedBookId, pc, nodes, allPairs, pairIdx,
          nodeConnectionCount, selectedPairs, targetTotalConnections,
          prunedPairs, links, parent, searchedIdx, disconnectedComponents,
          compIdx, bookGraphData,
          simA, simB, simpc, simResult, simReason,
          firstGenre, secondGenre, genrepc, genreResult,
          selectedGenre, viewMode, loadingState, error, booksCacheRef,
          inFlight, sentimentData,
          runs, previousGraph, similarityCalls,
          scoreBooks, scorepc, batchStart, callState, scoreResults,
          scoreResponse

buildVars == <<genreBooks, highlightedBookId, pc, nodes, allPairs, pairIdx,
               nodeConnectionCount, selectedPairs, targetTotalConnections,
               prunedPairs, links, parent, searchedIdx, disconnectedComponents,
               compIdx, bookGraphData>>

simVars == <<simA, simB, simpc, simResult, simReason>>

\* What the model records about the runs of the memo: the number of runs
\* repeated on the same genreBooks and highlightedBookId, the graph the
\* run before returned, and how many times the current run has called
\* calculateSimilarity on each pair of node indices.
memoVars == <<runs, previousGraph, similarityCalls>>

\* a call of calculateGenreSimilarity on its own: its two arguments, where
\* the call stands and what it returned
genreSimVars == <<firstGenre, secondGenre, genrepc, genreResult>>

\* The component state of the fetch/score cycles: selectedGenre, viewMode,
\* loadingState, error and the cache of the fetched genres; inFlight holds
\* the calls of fetchBooksForGenre and handleSearchBookSelect that stand at
\* an await, and sentimentData is the scoring response from which
\* genreBooks was last assigned, with the path of its cycle (Undefined when
\* genreBooks was assigned from the cache or emptied).  A null is written
\* "null".
fetchVars == <<selectedGenre, viewMode, loadingState, error, booksCacheRef,
               inFlight, sentimentData>>

\* the locals and the result of the memo
runVars == <<pc, nodes, allPairs, pairIdx, nodeConnectionCount, selectedPairs,
             targetTotalConnections, prunedPairs, links, parent, searchedIdx,
             disconnectedComponents, compIdx, bookGraphData>>

\* the request, the loop position, the calls and the results of the scoring
\* route
scoreVars == <<scoreBooks, scorepc, batchStart, callState, scoreResults,
               scoreResponse>>

vars == <<buildVars, simVars, memoVars, genreSimVars, fetchVars, scoreVars>>

maxConnectionsPerNode == 3

\* an inner loop that starts at the book itself
FirstPartnerSelf(i) == i

\* for (let j = i + 1; ...)
FirstPartner(i) == i + 1

\* for i, for j > i: allPairs.push({ i, j, sim })
RECURSIVE PairsFrom(_, _, _)
PairsFrom(ns, i, j) ==
  IF i > Len(ns) THEN <<>>
  ELSE IF j > Len(ns) THEN PairsFrom(ns, i + 1, FirstPartner(i + 1))
  ELSE <<[i |-> i, j |-> j,
          sim |-> Similarity(ns[i].sentimentScores, ns[j].sentimentScores)]>>
       \o PairsFrom(ns, i, j + 1)

\* The comparator (a, b) => b.sim - a.sim orders b before a exactly when
\* b.sim > a.sim: the difference of two finite doubles is positive exactly
\* then.  Array.prototype.sort is stable: p is placed before the first
\* element that the comparator orders after it.
RECURSIVE InsertBySim(_, _, _)
InsertBySim(sorted, p, k) ==
  IF k > Len(sorted) THEN Append(sorted, p)
  ELSE IF FGt(p.sim, sorted[k].sim)
       THEN SubSeq(sorted, 1, k - 1) \o <<p>> \o SubSeq(sorted, k, Len(sorted))
       ELSE InsertBySim(sorted, p, k + 1)

RECURSIVE SortFrom(_, _, _)
SortFrom(ps, k, sorted) ==
  IF k > Len(ps) THEN sorted
  ELSE SortFrom(ps, k + 1, InsertBySim(sorted, ps[k], 1))

\* ps.sort((a, b) => b.sim - a.sim)
SortBySim(ps) == SortFrom(ps, 1, <<>>)

\* a copy that hands the books over in the opposite order
ReversedNodes(books) == [k \in 1..Len(books) |-> books[Len(books) + 1 - k]]

\* genreBooks.map((book) => ({ ...book }))
CopyNodes(books) == [k \in 1..Len(books) |-> books[k]]

\* the literal 1.5
OneAndAHalf == FDiv(FromInt(3), FromInt(2))

\* Math.floor(nodes.length * 1.5)
TargetTotalConnections(n) == FFloor(FMul(FromInt(n), OneAndAHalf))

\* a stop one pair before the target
TargetNearlyReached(len, target) == len + 1 >= target

\* selectedPairs.length >= targetTotalConnections
TargetReached(len, target) == len >= target

\* a room test that lets a node reach one connection more
HasRoomUpTo(countI, countJ) ==
  countI <= maxConnectionsPerNode /\ countJ <= maxConnectionsPerNode

\* countI < maxConnectionsPerNode && countJ < maxConnectionsPerNode
HasRoom(countI, countJ) ==
  countI < maxConnectionsPerNode /\ countJ < maxConnectionsPerNode

\* Math.max(x, y)
Max(x, y) == IF x > y THEN x ELSE y

\* an edge count that rounds 70% down
EdgesToKeepFloor(len) == Max(1, FFloor(FMul(FromInt(len), Num[7])))

\* Math.max(1, Math.ceil(selectedPairs.length * 0.7))
EdgesToKeep(len) == Max(1, FCeil(FMul(FromInt(len), Num[7])))

\* the last k elements instead of the first k
SliceLast(s, k) == SubSeq(s, IF k < Len(s) THEN Len(s) - k + 1 ELSE 1, Len(s))

\* slice(0, k)
Slice(s, k) == SubSeq(s, 1, IF k < Len(s) THEN k ELSE Len(s))

Link(ns, p) ==
  [source |-> ns[p.i].id, target |-> ns[p.j].id, similarityWeight |-> p.sim]

(***************************************************************************)
(* Union-find.  find compresses the path it walks, so it returns the root  *)
(* and the parent array it leaves.                                         *)
(***************************************************************************)
RECURSIVE FindRoot(_, _)
FindRoot(par, x) == IF par[x] # x THEN FindRoot(par, par[x]) ELSE x

RECURSIVE Compress(_, _)
Compress(par, x) ==
  IF par[x] # x
  THEN LET p2 == Compress(par, par[x])
       IN  [p2 EXCEPT ![x] = FindRoot(p2, par[x])]
  ELSE par

find(par, x) == [root |-> FindRoot(par, x), parent |-> Compress(par, x)]

union(par, x, y) ==
  LET fx == find(par, x)
      fy == find(fx.parent, y)
  IN  IF fx.root # fy.root THEN [fy.parent EXCEPT ![fx.root] = fy.root]
      ELSE fy.parent

\* new Map(nodes.map((n, i) => [n.id, i])).get(id): the last index with
\* that id, 0 when there is none (undefined)
NodeIdToIndex(ns, id) ==
  IF \E i \in 1..Len(ns) : ns[i].id = id
  THEN CHOOSE i \in 1..Len(ns) :
         ns[i].id = id /\ \A k \in (i + 1)..Len(ns) : ns[k].id # id
  ELSE 0

\* for (const link of links) union(sourceIdx, targetIdx)
RECURSIVE UnionLinks(_, _, _, _)
UnionLinks(ns, ls, k, par) ==
  IF k > Len(ls) THEN par
  ELSE LET sourceIdx == NodeIdToIndex(ns, ls[k].source)
           targetIdx == NodeIdToIndex(ns, ls[k].target)
       IN  UnionLinks(ns, ls, k + 1,
             IF sourceIdx # 0 /\ targetIdx # 0 THEN union(par, sourceIdx, targetIdx)
             ELSE par)

\* a searched index that falls back on the last book
SearchedIdxLast(ns, id) ==
  IF id # 0 /\ NodeIdToIndex(ns, id) # 0 THEN NodeIdToIndex(ns, id) ELSE Len(ns)

\* highlightedBookId ? nodeIdToIndex.get(highlightedBookId) ?? 0 : 0
SearchedIdx(ns, id) ==
  IF id # 0 THEN (IF NodeIdToIndex(ns, id) # 0 THEN NodeIdToIndex(ns, id) ELSE 1)
  ELSE 1

InSeq(s, x) == \E k \in 1..Len(s) : s[k] = x

\* a collection that also takes the searched book's own component
AddAnyComponent(comps, componentRoot, searchedComponent) ==
  IF InSeq(comps, componentRoot) THEN comps ELSE Append(comps, componentRoot)

\* if (componentRoot !== searchedComponent) disconnectedComponents.add(componentRoot)
AddComponent(comps, componentRoot, searchedComponent) ==
  IF componentRoot # searchedComponent /\ ~InSeq(comps, componentRoot)
  THEN Append(comps, componentRoot)
  ELSE comps

\* The loop over the nodes that fills the Set disconnectedComponents, kept
\* here in insertion order, the order in which a Set is iterated.
RECURSIVE CollectComponents(_, _, _, _, _)
CollectComponents(n, i, par, searchedComponent, comps) ==
  IF i > n THEN [parent |-> par, comps |-> comps]
  ELSE LET f == find(par, i)
       IN  CollectComponents(n, i + 1, f.parent, searchedComponent,
                             AddComponent(comps, f.root, searchedComponent))

\* nodes.map((_, idx) => idx).filter(idx => find(idx) === componentRoot)
RECURSIVE NodesInComponent(_, _, _, _, _)
NodesInComponent(n, i, par, componentRoot, acc) ==
  IF i > n THEN [parent |-> par, idxs |-> acc]
  ELSE LET f == find(par, i)
       IN  NodesInComponent(n, i + 1, f.parent, componentRoot,
                            IF f.root = componentRoot THEN Append(acc, i) ELSE acc)

\* a start value of 0 for bestSimilarity
BestSimilarityStartZero == Zero

\* let bestSimilarity = -1
BestSimilarityStart == FromInt(-1)

\* a test that also replaces the best node on an equal similarity
BetterOrEqual(sim, best) == ~FLt(sim, best)

\* sim > bestSimilarity
Better(sim, best) == FGt(sim, best)

\* The search for the node of the component most similar to the searched
\* book; bestNodeIdx 0 stands for the program's -1.
RECURSIVE BestNode(_, _, _, _, _)
BestNode(ns, idxs, k, sIdx, best) ==
  IF k > Len(idxs) THEN best
  ELSE LET sim == Similarity(ns[idxs[k]].sentimentScores, ns[sIdx].sentimentScores)
       IN  IF Better(sim, best.bestSimilarity)
           THEN BestNode(ns, idxs, k + 1, sIdx,
                         [bestNodeIdx |-> idxs[k], bestSimilarity |-> sim])
           ELSE BestNode(ns, idxs, k + 1, sIdx, best)

\* a repair link that ends at the first book instead of the searched book
RepairLinkToFirst(ns, bestNodeIdx, sIdx, bestSimilarity) ==
  [source |-> ns[bestNodeIdx].id, target |-> ns[1].id,
   similarityWeight |-> bestSimilarity]

\* links.push({ source: nodes[bestNodeIdx].id, target: nodes[searchedIdx].id, ... })
RepairLink(ns, bestNodeIdx, sIdx, bestSimilarity) ==
  [source |-> ns[bestNodeIdx].id, target |-> ns[sIdx].id,
   similarityWeight |-> bestSimilarity]

\* no call of calculateSimilarity yet
NoCalls == [p \in {} |-> 0]

\* one more call on the node indices x and y
AddCall(calls, x, y) ==
  IF <<x, y>> \in DOMAIN calls
  THEN [calls EXCEPT ![<<x, y>>] = @ + 1]
  ELSE [p \in (DOMAIN calls) \cup {<<x, y>>} |->
          IF p = <<x, y>> THEN 1 ELSE calls[p]]

\* line 294: one call for each pair that the loops push
RECURSIVE CallsOfPairs(_, _, _)
CallsOfPairs(ps, k, calls) ==
  IF k > Len(ps) THEN calls
  ELSE CallsOfPairs(ps, k + 1, AddCall(calls, ps[k].i, ps[k].j))

\* line 391: one call for each node of the component, with the searched book
RECURSIVE CallsOfRepair(_, _, _, _)
CallsOfRepair(idxs, k, sIdx, calls) ==
  IF k > Len(idxs) THEN calls
  ELSE CallsOfRepair(idxs, k + 1, sIdx,
         IF idxs[k] < sIdx THEN AddCall(calls, idxs[k], sIdx)
         ELSE AddCall(calls, sIdx, idxs[k]))

\* a map that keeps the counts of the run before
StaleConnectionCount(counts, n) ==
  IF Len(counts) = n THEN counts ELSE [k \in 1..n |-> 0]

\* const nodeConnectionCount = new Map(): every count reads as 0
NewConnectionCount(counts, n) == [k \in 1..n |-> 0]

(***************************************************************************)
(* The inputs: every list of at most MaxBooks books with vectors among    *)
(* BuildVectors, the book at index k having id k, and every                *)
(* highlightedBookId: null or the id of a listed book.                     *)
(***************************************************************************)
BookLists(maxLen, vectors) ==
  UNION {[1..n -> vectors] : n \in 0..maxLen}

Books(f) == [k \in 1..Len(f) |-> [id |-> k, sentimentScores |-> f[k]]]

\* no call of calculateSimilarity or generateConnectionReason on its own
SimOff ==
  /\ simA = ZeroVector /\ simB = ZeroVector /\ simpc = "off"
  /\ simResult = Zero /\ simReason = <<>>

\* Object.keys(genreColors)
Genres ==
  <<"Sci-Fi", "Non-Fiction", "Literary Fiction", "Fantasy", "Mystery",
    "Philosophy", "Romance", "Horror", "Historical Fiction", "Biography",
    "Self-Help", "Poetry">>

\* no call of calculateGenreSimilarity on its own
GenreSimOff ==
  /\ firstGenre = Genres[1] /\ secondGenre = Genres[1] /\ genrepc = "off"
  /\ genreResult = [weight |-> 0, reason |-> ""]

\* lines 204-233: the state of the component when it is mounted
FetchStart ==
  /\ selectedGenre = "null" /\ viewMode = "genres"
  /\ loadingState = "idle" /\ error = "null"
  /\ booksCacheRef = [g \in {} |-> <<>>]
  /\ inFlight = <<>>
  /\ sentimentData = Undefined

\* no request at the scoring route
ScoreOff ==
  /\ scoreBooks = <<>> /\ scorepc = "off" /\ batchStart = 0
  /\ callState = <<>> /\ scoreResults = [id \in {} |-> 0]
  /\ scoreResponse = [status |-> 0]

\* before the first run of the memo
MemoStart ==
  /\ runs = 0
  /\ previousGraph = [nodes |-> <<>>, links |-> <<>>]
  /\ similarityCalls = NoCalls

Init ==
  /\ \E f \in BookLists(MaxBooks, BuildVectors) : genreBooks = Books(f)
  /\ highlightedBookId \in 0..Len(genreBooks)
  /\ pc = "pairs"
  /\ nodes = <<>> /\ allPairs = <<>> /\ pairIdx = 1
  /\ nodeConnectionCount = <<>> /\ selectedPairs = <<>>
  /\ targetTotalConnections = 0
  /\ prunedPairs = <<>> /\ links = <<>> /\ parent = <<>>
  /\ searchedIdx = 0 /\ disconnectedComponents = <<>> /\ compIdx = 1
  /\ bookGraphData = [nodes |-> <<>>, links |-> <<>>]
  /\ SimOff
  /\ MemoStart
  /\ GenreSimOff
  /\ FetchStart
  /\ ScoreOff

\* lines 285-307: the early return on an empty list, the copy of the books,
\* the pairs and their sort
EnumeratePairs ==
  /\ pc = "pairs"
  /\ IF Len(genreBooks) = 0
     THEN /\ bookGraphData' = [nodes |-> <<>>, links |-> <<>>]
          /\ pc' = "done"
          /\ similarityCalls' = NoCalls
          /\ UNCHANGED <<nodes, allPairs, nodeConnectionCount, targetTotalConnections,
                         pairIdx, selectedPairs, prunedPairs, links>>
     ELSE /\ nodes' = CopyNodes(genreBooks)
          /\ links' = <<>>
          /\ allPairs' = SortBySim(PairsFrom(nodes', 1, FirstPartner(1)))
          /\ similarityCalls' = CallsOfPairs(allPairs', 1, NoCalls)
          /\ nodeConnectionCount' =
               NewConnectionCount(nodeConnectionCount, Len(genreBooks))
          /\ selectedPairs' = <<>>
          /\ prunedPairs' = <<>>
          /\ pairIdx' = 1
          /\ targetTotalConnections' = TargetTotalConnections(Len(genreBooks))
          /\ pc' = IF Len(genreBooks) = 1 THEN "prune" ELSE "select"
          /\ UNCHANGED bookGraphData
  /\ UNCHANGED <<genreBooks, highlightedBookId, parent, searchedIdx,
                 disconnectedComponents, compIdx>>
  /\ UNCHANGED <<simVars, runs, previousGraph, genreSimVars, scoreVars, fetchVars>>

\* lines 310-323: one iteration of the greedy pass
SelectPair ==
  /\ pc = "select"
  /\ LET pair   == allPairs[pairIdx]
         countI == nodeConnectionCount[pair.i]
         countJ == nodeConnectionCount[pair.j]
         room   == HasRoom(countI, countJ)
         sel    == IF room THEN Append(selectedPairs, pair) ELSE selectedPairs
     IN  /\ selectedPairs' = sel
         /\ nodeConnectionCount' =
              IF room
              THEN [nodeConnectionCount EXCEPT ![pair.i] = countI + 1,
                                               ![pair.j] = countJ + 1]
              ELSE nodeConnectionCount
         /\ pairIdx' = pairIdx + 1
         /\ pc' = IF (room /\ TargetReached(Len(sel), targetTotalConnections))
                     \/ pairIdx = Len(allPairs)
                  THEN "prune" ELSE "select"
  /\ UNCHANGED <<genreBooks, highlightedBookId, nodes, allPairs,
                 targetTotalConnections, prunedPairs, links, parent, searchedIdx,
                 disconnectedComponents, compIdx, bookGraphData>>
  /\ UNCHANGED <<simVars, memoVars, genreSimVars, scoreVars, fetchVars>>

\* lines 325-340: the second sort, the cut to 70% and the links
Prune ==
  /\ pc = "prune"
  /\ LET sorted == SortBySim(selectedPairs)
         pruned == Slice(sorted, EdgesToKeep(Len(sorted)))
     IN  /\ selectedPairs' = sorted
         /\ prunedPairs' = pruned
         /\ links' = [k \in 1..Len(pruned) |-> Link(nodes, pruned[k])]
  /\ pc' = "components"
  /\ UNCHANGED <<genreBooks, highlightedBookId, nodes, allPairs, pairIdx,
                 nodeConnectionCount, targetTotalConnections, parent, searchedIdx,
                 disconnectedComponents, compIdx, bookGraphData>>
  /\ UNCHANGED <<simVars, memoVars, genreSimVars, scoreVars, fetchVars>>

\* lines 344-377: the union-find over the links and the components other
\* than the searched book's
FindComponents ==
  /\ pc = "components"
  /\ LET par0 == UnionLinks(nodes, links, 1, [k \in 1..Len(nodes) |-> k])
         sIdx == SearchedIdx(nodes, highlightedBookId)
         fs   == find(par0, sIdx)
         cc   == CollectComponents(Len(nodes), 1, fs.parent, fs.root, <<>>)
     IN  /\ searchedIdx' = sIdx
         /\ parent' = cc.parent
         /\ disconnectedComponents' = cc.comps
         /\ compIdx' = 1
         /\ IF Len(cc.comps) = 0
            THEN /\ pc' = "done"
                 /\ bookGraphData' = [nodes |-> nodes, links |-> links]
            ELSE /\ pc' = "repair"
                 /\ UNCHANGED bookGraphData
  /\ UNCHANGED <<genreBooks, highlightedBookId, nodes, allPairs, pairIdx,
                 nodeConnectionCount, selectedPairs, targetTotalConnections,
                 prunedPairs, links>>
  /\ UNCHANGED <<simVars, memoVars, genreSimVars, scoreVars, fetchVars>>

\* lines 380-412: one iteration of the repair loop, and the return after
\* the last
RepairComponent ==
  /\ pc = "repair"
  /\ LET componentRoot == disconnectedComponents[compIdx]
         nic  == NodesInComponent(Len(nodes), 1, parent, componentRoot, <<>>)
         best == BestNode(nodes, nic.idxs, 1, searchedIdx,
                          [bestNodeIdx |-> 0, bestSimilarity |-> BestSimilarityStart])
         ls   == IF best.bestNodeIdx # 0
                 THEN Append(links, RepairLink(nodes, best.bestNodeIdx, searchedIdx,
                                               best.bestSimilarity))
                 ELSE links
     IN  /\ links' = ls
         /\ parent' = IF best.bestNodeIdx # 0
                      THEN union(nic.parent, best.bestNodeIdx, searchedIdx)
                      ELSE nic.parent
         /\ similarityCalls' = CallsOfRepair(nic.idxs, 1, searchedIdx, similarityCalls)
         /\ compIdx' = compIdx + 1
         /\ IF compIdx = Len(disconnectedComponents)
            THEN /\ pc' = "done"
                 /\ bookGraphData' = [nodes |-> nodes, links |-> ls]
            ELSE /\ pc' = "repair"
                 /\ UNCHANGED bookGraphData
  /\ UNCHANGED <<genreBooks, highlightedBookId, nodes, allPairs, pairIdx,
                 nodeConnectionCount, selectedPairs, targetTotalConnections,
                 prunedPairs, searchedIdx, disconnectedComponents>>
  /\ UNCHANGED <<simVars, runs, previousGraph, genreSimVars, scoreVars, fetchVars>>

Next ==
  \/ EnumeratePairs
  \/ SelectPair
  \/ Prune
  \/ FindComponents
  \/ RepairComponent

Spec == Init /\ [][Next]_vars

(***************************************************************************)
(* The same build on the lists of at most ScenarioBooks books over the     *)
(* three vectors of the scenario.                                          *)
(***************************************************************************)
ScenarioInit ==
  /\ \E f \in BookLists(ScenarioBooks, ScenarioVectors) : genreBooks = Books(f)
  /\ highlightedBookId \in 0..Len(genreBooks)
  /\ pc = "pairs"
  /\ nodes = <<>> /\ allPairs = <<>> /\ pairIdx = 1
  /\ nodeConnectionCount = <<>> /\ selectedPairs = <<>>
  /\ targetTotalConnections = 0
  /\ prunedPairs = <<>> /\ links = <<>> /\ parent = <<>>
  /\ searchedIdx = 0 /\ disconnectedComponents = <<>> /\ compIdx = 1
  /\ bookGraphData = [nodes |-> <<>>, links |-> <<>>]
  /\ SimOff
  /\ MemoStart
  /\ GenreSimOff
  /\ FetchStart
  /\ ScoreOff

ScenarioSpec == ScenarioInit /\ [][Next]_vars

(***************************************************************************)
(* The same build on the lists of at most GradedBooks books over three     *)
(* vectors whose similarities take the values 0, 1/sqrt(2) and 1.          *)
(***************************************************************************)
GradedBooks == 5

GradedInit ==
  /\ \E f \in BookLists(GradedBooks, GradedVectors) : genreBooks = Books(f)
  /\ highlightedBookId \in 0..Len(genreBooks)
  /\ pc = "pairs"
  /\ nodes = <<>> /\ allPairs = <<>> /\ pairIdx = 1
  /\ nodeConnectionCount = <<>> /\ selectedPairs = <<>>
  /\ targetTotalConnections = 0
  /\ prunedPairs = <<>> /\ links = <<>> /\ parent = <<>>
  /\ searchedIdx = 0 /\ disconnectedComponents = <<>> /\ compIdx = 1
  /\ bookGraphData = [nodes |-> <<>>, links |-> <<>>]
  /\ SimOff
  /\ MemoStart
  /\ GenreSimOff
  /\ FetchStart
  /\ ScoreOff

GradedSpec == GradedInit /\ [][Next]_vars

(***************************************************************************)
(* The same build on lists of at most GreedyBooks books over the three     *)
(* graded vectors, with no book highlighted: lists long enough for the     *)
(* greedy pass to reach its target before the end of the pairs.  The lists *)
(* are those in which the books of equal vector stand together.            *)
(***************************************************************************)
GreedyBooks == 8

GroupedLists(maxLen, vectors) ==
  {f \in BookLists(maxLen, vectors) :
     \A x, y, z \in 1..Len(f) : (x < y /\ y < z /\ f[x] = f[z]) => f[y] = f[x]}

GreedyInit ==
  /\ \E f \in GroupedLists(GreedyBooks, GradedVectors) : genreBooks = Books(f)
  /\ highlightedBookId = 0
  /\ pc = "pairs"
  /\ nodes = <<>> /\ allPairs = <<>> /\ pairIdx = 1
  /\ nodeConnectionCount = <<>> /\ selectedPairs = <<>>
  /\ targetTotalConnections = 0
  /\ prunedPairs = <<>> /\ links = <<>> /\ parent = <<>>
  /\ searchedIdx = 0 /\ disconnectedComponents = <<>> /\ compIdx = 1
  /\ bookGraphData = [nodes |-> <<>>, links |-> <<>>]
  /\ SimOff
  /\ MemoStart
  /\ GenreSimOff
  /\ FetchStart
  /\ ScoreOff

GreedySpec == GreedyInit /\ [][Next]_vars

(***************************************************************************)
(* The memo run again on the same genreBooks and highlightedBookId (React  *)
(* may call the function of a useMemo again at any render): the run starts *)
(* over with the graph of the run before kept for comparison.  Lists of at *)
(* most RebuildBooks books, at most MaxRuns repeated runs.                 *)
(***************************************************************************)
RebuildBooks == 5
MaxRuns == 1

RebuildInit ==
  /\ \E f \in BookLists(RebuildBooks, ScenarioVectors) : genreBooks = Books(f)
  /\ highlightedBookId \in 0..Len(genreBooks)
  /\ pc = "pairs"
  /\ nodes = <<>> /\ allPairs = <<>> /\ pairIdx = 1
  /\ nodeConnectionCount = <<>> /\ selectedPairs = <<>>
  /\ targetTotalConnections = 0
  /\ prunedPairs = <<>> /\ links = <<>> /\ parent = <<>>
  /\ searchedIdx = 0 /\ disconnectedComponents = <<>> /\ compIdx = 1
  /\ bookGraphData = [nodes |-> <<>>, links |-> <<>>]
  /\ SimOff
  /\ MemoStart
  /\ GenreSimOff
  /\ FetchStart
  /\ ScoreOff

Rebuild ==
  /\ pc = "done"
  /\ runs < MaxRuns
  /\ runs' = runs + 1
  /\ previousGraph' = bookGraphData
  /\ pc' = "pairs"
  /\ UNCHANGED <<genreBooks, highlightedBookId, nodes, allPairs, pairIdx,
                 nodeConnectionCount, selectedPairs, targetTotalConnections,
                 prunedPairs, links, parent, searchedIdx, disconnectedComponents,
                 compIdx, bookGraphData, similarityCalls>>
  /\ UNCHANGED <<simVars, genreSimVars, scoreVars, fetchVars>>

RebuildNext == Next \/ Rebuild

RebuildSpec == RebuildInit /\ [][RebuildNext]_vars

(***************************************************************************)
(* The build on lists of at most InvalidBooks books in which a book may    *)
(* carry a score outside [0, 1].  Neither bookGraphData nor                *)
(* calculateSimilarity tests a score, so the steps are those of Next.      *)
(***************************************************************************)
InvalidBooks == 5

InvalidInit ==
  /\ \E f \in BookLists(InvalidBooks, InvalidVectors) : genreBooks = Books(f)
  /\ highlightedBookId \in 0..Len(genreBooks)
  /\ pc = "pairs"
  /\ nodes = <<>> /\ allPairs = <<>> /\ pairIdx = 1
  /\ nodeConnectionCount = <<>> /\ selectedPairs = <<>>
  /\ targetTotalConnections = 0
  /\ prunedPairs = <<>> /\ links = <<>> /\ parent = <<>>
  /\ searchedIdx = 0 /\ disconnectedComponents = <<>> /\ compIdx = 1
  /\ bookGraphData = [nodes |-> <<>>, links |-> <<>>]
  /\ SimOff
  /\ MemoStart
  /\ GenreSimOff
  /\ FetchStart
  /\ ScoreOff

InvalidSpec == InvalidInit /\ [][Next]_vars

(***************************************************************************)
(* The fetch/score cycles: handleGenreClick, the Retry button,             *)
(* handleSearchBookSelect and handleBackToGenres, and the two awaits of a  *)
(* cycle, the response of /api/books and the response of /api/sentiment.   *)
(* Both services are outside the program: a response is any of the ones    *)
(* listed here.  A handler runs up to its first await in one step, and the *)
(* code after an await runs in one step when the response arrives.  The    *)
(* loading overlay covers the controls while loadingState is not "idle"    *)
(* but disables none of them, and no handler tests loadingState, so a      *)
(* handler can be invoked at any time.  bookGraphData is recomputed from   *)
(* genreBooks and highlightedBookId at the next render; that run is the    *)
(* subject of Spec and is not repeated here.                               *)
(***************************************************************************)
MaxInFlight == 2

\* the two genres of the cycles
FetchGenres == {Genres[1], Genres[4]}

\* the books /api/books knows for a genre
Catalog(genre) ==
  IF genre = Genres[1]
  THEN <<[id |-> 1, genre |-> genre], [id |-> 2, genre |-> genre]>>
  ELSE <<[id |-> 3, genre |-> genre], [id |-> 4, genre |-> genre]>>

\* booksResponse: not ok, or ok with no book or with the books of the genre
BooksResponses(genre) ==
  {[ok |-> FALSE, books |-> <<>>], [ok |-> TRUE, books |-> <<>>],
   [ok |-> TRUE, books |-> Catalog(genre)]}

\* the vector the scoring service gives a book when it scores it
ServiceScores(id) ==
  IF id % 2 = 1 THEN SentimentScores(<<10, 0, 0, 0, 0>>)
  ELSE SentimentScores(<<0, 10, 0, 0, 0>>)

BookIds(books) == {books[k].id : k \in 1..Len(books)}

\* sentimentResponse: not ok, or ok with the scores of every book, of no
\* book, or of every book but the first
SentimentResponses(books) ==
  {[ok |-> FALSE, sentiments |-> [id \in {} |-> ZeroVector]]}
  \cup {[ok |-> TRUE, sentiments |-> [id \in scored |-> ServiceScores(id)]] :
          scored \in {BookIds(books), {}, BookIds(books) \ {books[1].id}}}

\* the entries of searchResults: a book that /api/books does not return
\* for its genre, and a book of the catalog of the other genre
SearchResults ==
  {[id |-> 5, genre |-> Genres[1]], [id |-> 3, genre |-> Genres[4]]}

\* a vector of zeros in the place of the fallback
ZeroFallback == SentimentScores(<<0, 0, 0, 0, 0>>)

\* { moody: 0.5, scientific: 0.5, optimistic: 0.5, philosophical: 0.5,
\*   adventurous: 0.5 }
FallbackScores == SentimentScores(<<5, 5, 5, 5, 5>>)

\* sentimentData.sentiments[book.id] || { ... }
ScoresOrFallback(sentiments, id) ==
  IF id \in DOMAIN sentiments THEN sentiments[id] ELSE FallbackScores

\* books.map(book => ({ ...book, sentimentScores: ... }))
BooksWithSentiments(books, sentiments) ==
  [k \in 1..Len(books) |->
     [id |-> books[k].id, genre |-> books[k].genre,
      sentimentScores |-> ScoresOrFallback(sentiments, books[k].id)]]

\* lines 610-626: the searched book put in front when the response lacks it
WithSearchedBook(books, searchResult) ==
  IF searchResult.id \in BookIds(books) THEN books
  ELSE <<searchResult>> \o Slice(books, 11)

\* booksCacheRef.current.set(genre, list)
CacheSet(cache, genre, list) ==
  [g \in DOMAIN cache \cup {genre} |-> IF g = genre THEN list ELSE cache[g]]

Remove(s, i) == SubSeq(s, 1, i - 1) \o SubSeq(s, i + 1, Len(s))

\* a cycle that stands at its first await
NewCycle(path, genre, searchResult) ==
  [path |-> path, genre |-> genre, searchResult |-> searchResult,
   stage |-> "books", books |-> <<>>]

\* a cache test that never finds the genre
CacheMiss(cache, genre) == FALSE

\* booksCacheRef.current.has(genre)
CacheHas(cache, genre) == genre \in DOMAIN cache

\* fetchBooksForGenre(genre) up to the await of line 430
FetchBooksForGenre(genre) ==
  IF CacheHas(booksCacheRef, genre)
  THEN /\ genreBooks' = booksCacheRef[genre]
       /\ sentimentData' = Undefined
       /\ UNCHANGED <<error, loadingState, inFlight>>
  ELSE /\ Len(inFlight) < MaxInFlight
       /\ error' = "null"
       /\ loadingState' = "fetching-books"
       /\ inFlight' = Append(inFlight,
                             NewCycle("genre", genre, [id |-> 0, genre |-> genre]))
       /\ UNCHANGED <<genreBooks, sentimentData>>

\* lines 1132-1140: handleGenreClick(genre)
GenreClick(genre) ==
  /\ selectedGenre' = genre
  /\ viewMode' = "books"
  /\ highlightedBookId' = 0
  /\ FetchBooksForGenre(genre)
  /\ UNCHANGED <<booksCacheRef, runVars, simVars, memoVars, genreSimVars, scoreVars>>

HandleGenreClick == \E genre \in FetchGenres : GenreClick(genre)

\* line 1357: the Retry button of the error overlay
RetryFetch ==
  /\ error # "null" /\ viewMode = "books"
  /\ selectedGenre # "null"
  /\ FetchBooksForGenre(selectedGenre)
  /\ UNCHANGED <<selectedGenre, viewMode, highlightedBookId, booksCacheRef,
                 runVars, simVars, memoVars, genreSimVars, scoreVars>>

\* lines 553-601: handleSearchBookSelect up to the await of line 599
HandleSearchBookSelect ==
  \E searchResult \in SearchResults :
    /\ highlightedBookId' = searchResult.id
    /\ selectedGenre' = searchResult.genre
    /\ viewMode' = "books"
    /\ IF /\ searchResult.genre \in DOMAIN booksCacheRef
          /\ searchResult.id \in BookIds(booksCacheRef[searchResult.genre])
       THEN /\ genreBooks' = booksCacheRef[searchResult.genre]
            /\ sentimentData' = Undefined
            /\ UNCHANGED <<error, loadingState, inFlight>>
       ELSE /\ Len(inFlight) < MaxInFlight
            /\ error' = "null"
            /\ loadingState' = "fetching-books"
            /\ inFlight' = Append(inFlight,
                                  NewCycle("search", searchResult.genre, searchResult))
            /\ UNCHANGED <<genreBooks, sentimentData>>
    /\ UNCHANGED <<booksCacheRef, runVars, simVars, memoVars, genreSimVars, scoreVars>>

\* lines 703-714
HandleBackToGenres ==
  /\ viewMode' = "genres"
  /\ selectedGenre' = "null"
  /\ highlightedBookId' = 0
  /\ genreBooks' = <<>>
  /\ sentimentData' = Undefined
  /\ error' = "null"
  /\ UNCHANGED <<loadingState, booksCacheRef, inFlight>>
  /\ UNCHANGED <<runVars, simVars, memoVars, genreSimVars, scoreVars>>

\* a throw whose finally leaves the loading state as it is
CycleFailsStillLoading(i, message) ==
  /\ error' = message
  /\ UNCHANGED loadingState
  /\ inFlight' = Remove(inFlight, i)

\* the throw of a cycle, its catch and its finally
CycleFails(i, message) ==
  /\ error' = message
  /\ loadingState' = "idle"
  /\ inFlight' = Remove(inFlight, i)

\* lines 432-442 and 603-628: the response of /api/books arrives
BooksResponseWith(i, response) ==
  /\ inFlight[i].stage = "books"
  /\ IF ~response.ok
     THEN CycleFails(i, IF inFlight[i].path = "genre"
                        THEN "Failed to fetch books from Open Library"
                        ELSE "Failed to fetch books")
     ELSE IF inFlight[i].path = "genre" /\ Len(response.books) = 0
     THEN CycleFails(i, "No books found for this genre")
     ELSE /\ loadingState' = "generating-sentiments"
          /\ inFlight' =
               [inFlight EXCEPT ![i].stage = "sentiment",
                  ![i].books =
                    IF inFlight[i].path = "genre" THEN response.books
                    ELSE WithSearchedBook(response.books,
                                          inFlight[i].searchResult)]
          /\ UNCHANGED error
  /\ UNCHANGED <<selectedGenre, viewMode, booksCacheRef, sentimentData>>
  /\ UNCHANGED <<buildVars, simVars, memoVars, genreSimVars, scoreVars>>

\* the response of the cycle at place i
BooksResponseAt(i) ==
  /\ i <= Len(inFlight)
  /\ inFlight[i].stage = "books"
  /\ \E response \in BooksResponses(inFlight[i].genre) :
       BooksResponseWith(i, response)

BooksResponse == \E i \in 1..Len(inFlight) : BooksResponseAt(i)

\* lines 460-492 and 646-686: the response of /api/sentiment arrives
SentimentResponseWith(i, response) ==
  /\ inFlight[i].stage = "sentiment"
  /\ IF ~response.ok
     THEN /\ CycleFails(i, "Failed to generate sentiment scores")
          /\ UNCHANGED <<booksCacheRef, genreBooks, sentimentData>>
     ELSE /\ booksCacheRef' =
               CacheSet(booksCacheRef, inFlight[i].genre,
                        BooksWithSentiments(inFlight[i].books,
                                            response.sentiments))
          /\ genreBooks' = booksCacheRef'[inFlight[i].genre]
          /\ sentimentData' = [path |-> inFlight[i].path,
                                sentiments |-> response.sentiments]
          /\ loadingState' = "idle"
          /\ inFlight' = Remove(inFlight, i)
          /\ UNCHANGED error
  /\ UNCHANGED <<selectedGenre, viewMode, highlightedBookId>>
  /\ UNCHANGED <<runVars, simVars, memoVars, genreSimVars, scoreVars>>

\* the response of the cycle at place i
SentimentResponseAt(i) ==
  /\ i <= Len(inFlight)
  /\ inFlight[i].stage = "sentiment"
  /\ \E response \in SentimentResponses(inFlight[i].books) :
       SentimentResponseWith(i, response)

SentimentResponse == \E i \in 1..Len(inFlight) : SentimentResponseAt(i)

FetchInit ==
  /\ genreBooks = <<>> /\ highlightedBookId = 0 /\ pc = "off"
  /\ nodes = <<>> /\ allPairs = <<>> /\ pairIdx = 1
  /\ nodeConnectionCount = <<>> /\ selectedPairs = <<>>
  /\ targetTotalConnections = 0
  /\ prunedPairs = <<>> /\ links = <<>> /\ parent = <<>>
  /\ searchedIdx = 0 /\ disconnectedComponents = <<>> /\ compIdx = 1
  /\ bookGraphData = [nodes |-> <<>>, links |-> <<>>]
  /\ SimOff
  /\ MemoStart
  /\ GenreSimOff
  /\ FetchStart
  /\ ScoreOff

FetchNext ==
  \/ HandleGenreClick
  \/ RetryFetch
  \/ HandleSearchBookSelect
  \/ HandleBackToGenres
  \/ BooksResponse
  \/ SentimentResponse

FetchSpec == FetchInit /\ [][FetchNext]_vars

(***************************************************************************)
(* The cycles of fetchBooksForGenre alone (genre clicks, Retry, Back),     *)
(* under the condition that every pending request resolves: the response   *)
(* of the cycle at each place of inFlight arrives in the end.              *)
(***************************************************************************)
FetchLiveNext ==
  \/ HandleGenreClick
  \/ RetryFetch
  \/ HandleBackToGenres
  \/ BooksResponse
  \/ SentimentResponse

RequestsResolve ==
  \A i \in 1..MaxInFlight :
    WF_vars(BooksResponseAt(i)) /\ WF_vars(SentimentResponseAt(i))

FetchLiveSpec == FetchInit /\ [][FetchLiveNext]_vars /\ RequestsResolve

(***************************************************************************)
(* The scoring route, POST /api/sentiment (src/app/api/books/search/       *)
(* route.ts).  The handler runs to its first await in one step; the calls  *)
(* of generateText of a batch are started together by batch.map and end    *)
(* one by one in any order, each with an output, with a throw, or with no  *)
(* output; the code after await Promise.all runs in one step when the last *)
(* call of the batch has ended.  Requests of at most MaxScoreBooks books,   *)
(* book k with id k and the genres Sci-Fi, Romance, Fantasy in turn.       *)
(***************************************************************************)
MaxScoreBooks == 6

BATCH_SIZE == 5

ScoreGenres == <<Genres[1], Genres[7], Genres[4]>>

ScoreRequests ==
  {[k \in 1..n |-> [id |-> k, genre |-> ScoreGenres[((k - 1) % 3) + 1]]] :
     n \in 0..MaxScoreBooks}

\* the table of getFallbackScores, in tenths
fallbacks ==
  (Genres[1] :> SentimentScores(<<5, 9, 5, 7, 7>>))
  @@ (Genres[2] :> SentimentScores(<<3, 8, 6, 6, 3>>))
  @@ (Genres[3] :> SentimentScores(<<6, 2, 4, 8, 3>>))
  @@ (Genres[4] :> SentimentScores(<<5, 1, 6, 4, 9>>))
  @@ (Genres[5] :> SentimentScores(<<7, 4, 4, 3, 6>>))
  @@ (Genres[6] :> SentimentScores(<<4, 3, 5, 10, 1>>))

\* fallbacks[genre] || { moody: 0.5, ... }
getFallbackScores(genre) ==
  IF genre \in DOMAIN fallbacks THEN fallbacks[genre]
  ELSE SentimentScores(<<5, 5, 5, 5, 5>>)

\* books.slice(i, i + BATCH_SIZE), as the places of the books
Batch(i, n) == {k \in 1..n : i < k /\ k <= i + BATCH_SIZE}

\* batch.map(async (book) => ...): the calls of the batch are started
StartBatch(cs, i) ==
  [k \in 1..Len(cs) |-> IF k \in Batch(i, Len(cs)) THEN "pending" ELSE cs[k]]

\* a wait that ends with the first call of the batch
AnySettled(cs, idxs) == \E k \in idxs : cs[k] # "pending"

\* await Promise.all(...): every call of the batch has ended
AllSettled(cs, idxs) == \A k \in idxs : cs[k] # "pending"

\* the scores that the call of a book returns: the output, the fallback of
\* the catch, or nothing
ScoresOf(book, outcome) ==
  IF outcome = "output" THEN ServiceScores(book.id)
  ELSE IF outcome = "throws" THEN getFallbackScores(book.genre)
  ELSE Undefined

\* for (const result of batchResults) if (result.scores) results[result.id] = ...
MergeBatch(res, bks, cs, idxs) ==
  LET scored == {k \in idxs : ScoresOf(bks[k], cs[k]) # Undefined}
  IN  [id \in DOMAIN res \cup {bks[k].id : k \in scored} |->
         IF \E k \in scored : bks[k].id = id
         THEN ScoresOf(bks[CHOOSE k \in scored : bks[k].id = id],
                       cs[CHOOSE k \in scored : bks[k].id = id])
         ELSE res[id]]

\* lines 339-351: the request is read and checked, the first batch starts
Post ==
  /\ scorepc = "received"
  /\ IF Len(scoreBooks) = 0
     THEN /\ scoreResponse' = [status |-> 400]
          /\ scorepc' = "returned"
          /\ UNCHANGED callState
     ELSE /\ callState' = StartBatch([k \in 1..Len(scoreBooks) |-> "idle"], 0)
          /\ scorepc' = "await"
          /\ UNCHANGED scoreResponse
  /\ batchStart' = 0
  /\ UNCHANGED <<scoreBooks, scoreResults>>
  /\ UNCHANGED <<buildVars, simVars, memoVars, genreSimVars, fetchVars>>

\* lines 341, 385-388: request.json() rejects
PostUnreadable ==
  /\ scorepc = "received"
  /\ scoreResponse' = [status |-> 500]
  /\ scorepc' = "returned"
  /\ UNCHANGED <<scoreBooks, batchStart, callState, scoreResults>>
  /\ UNCHANGED <<buildVars, simVars, memoVars, genreSimVars, fetchVars>>

\* lines 353-372: one call of generateText ends
CallCompletes ==
  \E k \in 1..Len(callState) :
    /\ callState[k] = "pending"
    /\ \E outcome \in {"output", "throws", "empty"} :
         callState' = [callState EXCEPT ![k] = outcome]
    /\ UNCHANGED <<scoreBooks, scorepc, batchStart, scoreResults, scoreResponse>>
    /\ UNCHANGED <<buildVars, simVars, memoVars, genreSimVars, fetchVars>>

\* lines 351, 375-384: Promise.all resolves, the results of the batch are
\* stored, and the loop starts the next batch or the handler returns
BatchSettles ==
  /\ scorepc = "await"
  /\ AllSettled(callState, Batch(batchStart, Len(scoreBooks)))
  /\ scoreResults' = MergeBatch(scoreResults, scoreBooks, callState,
                                Batch(batchStart, Len(scoreBooks)))
  /\ batchStart' = batchStart + BATCH_SIZE
  /\ IF batchStart' < Len(scoreBooks)
     THEN /\ callState' = StartBatch(callState, batchStart')
          /\ UNCHANGED <<scorepc, scoreResponse>>
     ELSE /\ scoreResponse' = [status |-> 200, sentiments |-> scoreResults']
          /\ scorepc' = "returned"
          /\ UNCHANGED callState
  /\ UNCHANGED scoreBooks
  /\ UNCHANGED <<buildVars, simVars, memoVars, genreSimVars, fetchVars>>

ScoreInit ==
  /\ genreBooks = <<>> /\ highlightedBookId = 0 /\ pc = "off"
  /\ nodes = <<>> /\ allPairs = <<>> /\ pairIdx = 1
  /\ nodeConnectionCount = <<>> /\ selectedPairs = <<>>
  /\ targetTotalConnections = 0
  /\ prunedPairs = <<>> /\ links = <<>> /\ parent = <<>>
  /\ searchedIdx = 0 /\ disconnectedComponents = <<>> /\ compIdx = 1
  /\ bookGraphData = [nodes |-> <<>>, links |-> <<>>]
  /\ SimOff
  /\ MemoStart
  /\ GenreSimOff
  /\ FetchStart
  /\ scoreBooks \in ScoreRequests /\ scorepc = "received" /\ batchStart = 0
  /\ callState = <<>> /\ scoreResults = [id \in {} |-> 0]
  /\ scoreResponse = [status |-> 0]

ScoreNext ==
  \/ Post
  \/ PostUnreadable
  \/ CallCompletes
  \/ BatchSettles

ScoreSpec == ScoreInit /\ [][ScoreNext]_vars

(***************************************************************************)
(* calculateGenreSimilarity on its own: a call with two of the genres, as  *)
(* the loop of genreGraphData makes them, and its return.                  *)
(***************************************************************************)
GenreSimInit ==
  /\ genreBooks = <<>> /\ highlightedBookId = 0 /\ pc = "off"
  /\ nodes = <<>> /\ allPairs = <<>> /\ pairIdx = 1
  /\ nodeConnectionCount = <<>> /\ selectedPairs = <<>>
  /\ targetTotalConnections = 0
  /\ prunedPairs = <<>> /\ links = <<>> /\ parent = <<>>
  /\ searchedIdx = 0 /\ disconnectedComponents = <<>> /\ compIdx = 1
  /\ bookGraphData = [nodes |-> <<>>, links |-> <<>>]
  /\ SimOff
  /\ MemoStart
  /\ FetchStart
  /\ ScoreOff
  /\ \E i, j \in 1..Len(Genres) :
        firstGenre = Genres[i] /\ secondGenre = Genres[j]
  /\ genrepc = "call"
  /\ genreResult = [weight |-> 0, reason |-> ""]

CallGenreSimilarity ==
  /\ genrepc = "call"
  /\ genreResult' = calculateGenreSimilarity(firstGenre, secondGenre)
  /\ genrepc' = "returned"
  /\ UNCHANGED <<firstGenre, secondGenre>>
  /\ UNCHANGED <<buildVars, simVars, memoVars, fetchVars, scoreVars>>

GenreSimNext == CallGenreSimilarity

GenreSimSpec == GenreSimInit /\ [][GenreSimNext]_vars

(***************************************************************************)
(* calculateSimilarity on its own: a call with two vectors among the first *)
(* NumSimVecs of the pool, and its return.                                 *)
(***************************************************************************)
SimInit ==
  /\ genreBooks = <<>> /\ highlightedBookId = 0 /\ pc = "off"
  /\ nodes = <<>> /\ allPairs = <<>> /\ pairIdx = 1
  /\ nodeConnectionCount = <<>> /\ selectedPairs = <<>>
  /\ targetTotalConnections = 0
  /\ prunedPairs = <<>> /\ links = <<>> /\ parent = <<>>
  /\ searchedIdx = 0 /\ disconnectedComponents = <<>> /\ compIdx = 1
  /\ bookGraphData = [nodes |-> <<>>, links |-> <<>>]
  /\ simA \in Vectors(NumSimVecs) /\ simB \in Vectors(NumSimVecs)
  /\ simpc = "call" /\ simResult = Zero /\ simReason = <<>>
  /\ MemoStart
  /\ GenreSimOff
  /\ FetchStart
  /\ ScoreOff

CallSimilarity ==
  /\ simpc = "call"
  /\ simResult' = Similarity(simA, simB)
  /\ simpc' = "returned"
  /\ UNCHANGED <<simA, simB, simReason>>
  /\ UNCHANGED <<buildVars, memoVars, genreSimVars, scoreVars, fetchVars>>

\* generateConnectionReason(bookA, bookB, similarity) with the similarity of
\* the two books, as at lines 338 and 407
CallConnectionReason ==
  /\ simpc = "returned"
  /\ simReason' = generateConnectionReason(simA, simB, simResult)
  /\ simpc' = "reasoned"
  /\ UNCHANGED <<simA, simB, simResult>>
  /\ UNCHANGED <<buildVars, memoVars, genreSimVars, scoreVars, fetchVars>>

SimNext == CallSimilarity \/ CallConnectionReason

SimSpec == SimInit /\ [][SimNext]_vars

(***************************************************************************)
(* Graph notions for the properties, computed from the edges alone.        *)
(***************************************************************************)
\* the ids reachable from the ids in S over the links ls
RECURSIVE ReachableIds(_, _)
ReachableIds(S, ls) ==
  LET T == S \cup {ls[k].target : k \in {x \in 1..Len(ls) : ls[x].source \in S}}
             \cup {ls[k].source : k \in {x \in 1..Len(ls) : ls[x].target \in S}}
  IN  IF T = S THEN S ELSE ReachableIds(T, ls)

NodeIds == {nodes[k].id : k \in 1..Len(nodes)}

\* the links made from prunedPairs, and the links added by the repair
PrunedLinks == SubSeq(links, 1, Len(prunedPairs))
RepairLinks == SubSeq(links, Len(prunedPairs) + 1, Len(links))

\* the connected components of the nodes under the links ls
ComponentsOf(ls) == {ReachableIds({v}, ls) : v \in NodeIds}

\* the number of links of ls with v as an endpoint
Degree(v, ls) ==
  Cardinality({k \in 1..Len(ls) : ls[k].source = v \/ ls[k].target = v})

\* the number of selected pairs with node index k as an endpoint
SelectedCount(k) ==
  Cardinality({x \in 1..Len(selectedPairs) :
                 selectedPairs[x].i = k \/ selectedPairs[x].j = k})

AnchorPresent == highlightedBookId \in {genreBooks[k].id : k \in 1..Len(genreBooks)}

\* C1: for a list of n >= 1 books and a highlighted id that is in the list,
\* every node of the returned graph is reachable from the highlighted book
\* over the returned links.
C1_Connected ==
  (pc = "done" /\ Len(genreBooks) >= 1 /\ AnchorPresent)
    => ReachableIds({highlightedBookId}, bookGraphData.links)
         = {bookGraphData.nodes[k].id : k \in 1..Len(bookGraphData.nodes)}

C1_Witness ==
  /\ pc = "done" /\ AnchorPresent /\ highlightedBookId # 1
  /\ Len(RepairLinks) >= 2

\* C2: at every step of the greedy pass and after it, no node is an
\* endpoint of more than 3 selected pairs.
C2_DegreeCap == \A k \in 1..Len(nodes) : SelectedCount(k) <= 3

C2_Witness ==
  /\ pc = "prune"
  /\ \E k \in 1..Len(nodes) : SelectedCount(k) = 3
  /\ Len(selectedPairs) < Len(allPairs)
  /\ Len(selectedPairs) < targetTotalConnections

\* C3: once pruning has run, the number of retained pairs, and of links
\* before any repair link, is ceil(0.7 * min(selected, floor(1.5 * n))).
C3_PrunedCount ==
  LET n      == Len(genreBooks)
      target == (3 * n) \div 2
      m      == IF Len(selectedPairs) < target THEN Len(selectedPairs) ELSE target
      kept   == (7 * m + 9) \div 10
  IN  /\ pc \in {"components", "repair", "done"} => Len(prunedPairs) = kept
      /\ pc = "components" => Len(links) = kept

C3_Witness ==
  /\ pc = "components"
  /\ Len(selectedPairs) = 7
  /\ Len(links) = 5

\* C4: for n >= 1 the repair adds exactly c - 1 links, c being the number
\* of connected components of the nodes under the pruned links.
C4_RepairCount ==
  (pc = "done" /\ Len(genreBooks) >= 1)
    => Len(RepairLinks) = Cardinality(ComponentsOf(PrunedLinks)) - 1

C4_Witness ==
  /\ pc = "done"
  /\ Cardinality(ComponentsOf(PrunedLinks)) = 3
  /\ Len(RepairLinks) = 2

\* C5: every repair link has the anchor (the searched book, or the first
\* book) as an endpoint, no other node is an endpoint of more than one
\* repair link, and so no other node has more than 4 links in the result.
C5_RepairTouchesOnce ==
  pc = "done" /\ Len(genreBooks) >= 1 =>
    LET anchor == nodes[searchedIdx].id
    IN  /\ \A k \in 1..Len(RepairLinks) :
             RepairLinks[k].target = anchor /\ RepairLinks[k].source # anchor
        /\ \A v \in NodeIds \ {anchor} :
             /\ Degree(v, RepairLinks) <= 1
             /\ Degree(v, bookGraphData.links) <= 4

C5_Witness ==
  /\ pc = "done" /\ Len(genreBooks) >= 1
  /\ searchedIdx # 1
  /\ \E v \in NodeIds \ {nodes[searchedIdx].id} :
       Degree(v, RepairLinks) = 1 /\ Degree(v, bookGraphData.links) = 4

\* the scenario of C6: four books with vectors (1,0,0,0,0), (1,0,0,0,0),
\* (0,1,0,0,0), (0,0,1,0,0), the first one searched
ScenarioInput ==
  /\ genreBooks = Books(<<SentimentScores(<<10, 0, 0, 0, 0>>),
                          SentimentScores(<<10, 0, 0, 0, 0>>),
                          SentimentScores(<<0, 10, 0, 0, 0>>),
                          SentimentScores(<<0, 0, 10, 0, 0>>)>>)
  /\ highlightedBookId = 1

ScenarioSimilarities ==
  /\ Similarity(genreBooks[1].sentimentScores, genreBooks[2].sentimentScores) = FromInt(1)
  /\ Similarity(genreBooks[1].sentimentScores, genreBooks[3].sentimentScores) = Zero

C7_Symmetric ==
  simpc = "returned" => FEq(simResult, Similarity(simB, simA))

C7_Witness ==
  /\ simpc = "returned"
  /\ simA # simB
  /\ FGt(simResult, Zero)
  /\ Similarity(simA, simA) # Similarity(simB, simB)

\* C8: with an all-zero vector as either argument calculateSimilarity
\* returns the number 0, not NaN and not an infinity.
C8_ZeroVector ==
  (simpc = "returned" /\ (simA = ZeroVector \/ simB = ZeroVector))
    => simResult = Zero

C8_Witness ==
  simpc = "returned" /\ simA # ZeroVector /\ simB = ZeroVector

\* C9 as stated: for every vector a that is not all-zero,
\* calculateSimilarity(a, a) is 1.
C9_SelfSimilarityOne ==
  (simpc = "returned" /\ simA = simB /\ simA # ZeroVector)
    => simResult = FromInt(1)

\* C10: an empty list gives an empty node list and an empty link list, a
\* list of one book gives one node and no link.
C10_SmallInputs ==
  pc = "done" =>
    /\ Len(genreBooks) = 0 => bookGraphData = [nodes |-> <<>>, links |-> <<>>]
    /\ Len(genreBooks) = 1 =>
         /\ bookGraphData.nodes = genreBooks
         /\ Len(bookGraphData.nodes) = 1
         /\ bookGraphData.links = <<>>

C10_Witness ==
  pc = "done" /\ Len(genreBooks) = 1 /\ highlightedBookId = 1

\* C11: a run of the build repeated on the same list and the same
\* highlighted id returns the same nodes and the same links (endpoints and
\* weights, in the same order) as the run before.
C11_Idempotent ==
  (pc = "done" /\ runs >= 1) => bookGraphData = previousGraph

C11_Witness ==
  /\ pc = "done" /\ runs >= 1
  /\ Len(genreBooks) = RebuildBooks
  /\ Len(RepairLinks) >= 1
  /\ \E k \in 1..Len(nodes) : SelectedCount(k) = maxConnectionsPerNode

\* the returned nodes are the books of the list: the same ids in the same
\* order, each with the five scores of its book
NodesAreInput ==
  /\ Len(bookGraphData.nodes) = Len(genreBooks)
  /\ \A k \in 1..Len(genreBooks) :
       /\ bookGraphData.nodes[k].id = genreBooks[k].id
       /\ bookGraphData.nodes[k].sentimentScores.moody
            = genreBooks[k].sentimentScores.moody
       /\ bookGraphData.nodes[k].sentimentScores.scientific
            = genreBooks[k].sentimentScores.scientific
       /\ bookGraphData.nodes[k].sentimentScores.optimistic
            = genreBooks[k].sentimentScores.optimistic
       /\ bookGraphData.nodes[k].sentimentScores.philosophical
            = genreBooks[k].sentimentScores.philosophical
       /\ bookGraphData.nodes[k].sentimentScores.adventurous
            = genreBooks[k].sentimentScores.adventurous

\* C23: no step of the build (pairs, selection, pruning, components,
\* repair) changes the input list or a vector of it, and the returned node
\* list has the ids of the input in the same order, each node with the five
\* scores of its book.
C23_InputUnchanged ==
  [][/\ genreBooks' = genreBooks
     /\ pc' = "done" => NodesAreInput']_vars

\* a returned graph of books with different vectors, after a pruning that
\* dropped a pair and a repair that added a link
C23_Witness ==
  /\ pc = "done"
  /\ Len(prunedPairs) < Len(selectedPairs)
  /\ Len(RepairLinks) >= 1
  /\ genreBooks[1].sentimentScores # genreBooks[Len(genreBooks)].sentimentScores

\* the selected pairs that pruning kept, and those it dropped
RetainedPairs == {prunedPairs[k] : k \in 1..Len(prunedPairs)}
DroppedPairs ==
  {selectedPairs[k] : k \in 1..Len(selectedPairs)} \ RetainedPairs

\* C25: after pruning, every retained pair has a similarity greater than or
\* equal to the similarity of every selected pair that pruning dropped.
C25_DropsWeakest ==
  pc \in {"components", "repair", "done"} =>
    \A kept \in RetainedPairs : \A dropped \in DroppedPairs :
      ~FLt(kept.sim, dropped.sim)

\* pruning dropped a pair that is strictly weaker than a retained one
C25_Witness ==
  /\ pc = "done"
  /\ \E kept \in RetainedPairs : \E dropped \in DroppedPairs :
       FGt(kept.sim, dropped.sim)

\* the two endpoints of a link, without their order
Endpoints(l) == {l.source, l.target}

\* C27: for a list with unique ids the returned links contain no self-loop
\* and no two links with the same unordered pair of endpoints; in particular
\* no repair link has the endpoints of a link kept by selection and pruning.
C27_NoLoopNoDuplicate ==
  pc = "done" =>
    /\ \A k \in 1..Len(bookGraphData.links) :
         bookGraphData.links[k].source # bookGraphData.links[k].target
    /\ \A k, m \in 1..Len(bookGraphData.links) :
         k # m => Endpoints(bookGraphData.links[k]) # Endpoints(bookGraphData.links[m])

\* a returned graph with kept links at the anchor and a repair link whose
\* other end has kept links too
C27_Witness ==
  /\ pc = "done" /\ Len(genreBooks) >= 1
  /\ Degree(nodes[searchedIdx].id, PrunedLinks) >= 1
  /\ \E k \in 1..Len(RepairLinks) : Degree(RepairLinks[k].source, PrunedLinks) >= 1

\* the index in nodes of the book with id v, and its similarity to the
\* searched book, computed from the two vectors
IndexOfId(v) == CHOOSE k \in 1..Len(nodes) : nodes[k].id = v
SimilarityToAnchor(v) ==
  Similarity(nodes[IndexOfId(v)].sentimentScores, nodes[searchedIdx].sentimentScores)

\* the component of v under the links kept by selection and pruning
ComponentBeforeRepair(v) == ReachableIds({v}, PrunedLinks)

\* C26: each repair link joins the searched book to the member of a
\* component without the searched book whose similarity to the searched book
\* is the highest of the component, the member of lowest index among equals,
\* and the weight of the link is that similarity, computed from the two
\* vectors.
C26_RepairBestMember ==
  pc = "done" /\ Len(genreBooks) >= 1 =>
    \A k \in 1..Len(RepairLinks) :
      LET best == RepairLinks[k].source
      IN  /\ RepairLinks[k].target = nodes[searchedIdx].id
          /\ nodes[searchedIdx].id \notin ComponentBeforeRepair(best)
          /\ FEq(RepairLinks[k].similarityWeight, SimilarityToAnchor(best))
          /\ \A v \in ComponentBeforeRepair(best) :
               /\ ~FGt(SimilarityToAnchor(v), SimilarityToAnchor(best))
               /\ FEq(SimilarityToAnchor(v), SimilarityToAnchor(best))
                    => IndexOfId(best) <= IndexOfId(v)

\* a repair link to a component with a member of equal similarity at a
\* higher index and a member of lower similarity at a lower index
C26_Witness ==
  /\ pc = "done" /\ Len(genreBooks) >= 1
  /\ \E k \in 1..Len(RepairLinks) :
       LET best == RepairLinks[k].source
       IN  /\ \E v \in ComponentBeforeRepair(best) :
                /\ IndexOfId(v) > IndexOfId(best)
                /\ FEq(SimilarityToAnchor(v), SimilarityToAnchor(best))
           /\ \E v \in ComponentBeforeRepair(best) :
                /\ IndexOfId(v) < IndexOfId(best)
                /\ FLt(SimilarityToAnchor(v), SimilarityToAnchor(best))

\* the place of a pair in the sorted list of all pairs
PlaceOf(p) == CHOOSE k \in 1..Len(allPairs) : allPairs[k] = p

\* the pairs selected before the pass came to pair p that have node index e
\* as an endpoint
SelectedBefore(p, e) ==
  {q \in {selectedPairs[k] : k \in 1..Len(selectedPairs)} :
     PlaceOf(q) < PlaceOf(p) /\ (q.i = e \/ q.j = e)}

\* an endpoint of p had 3 selected pairs, each at least as similar as p
NoRoomFor(p) ==
  \E e \in {p.i, p.j} :
    /\ Cardinality(SelectedBefore(p, e)) = 3
    /\ \A q \in SelectedBefore(p, e) : ~FLt(q.sim, p.sim)

\* the pairs that are not selected: those the pass came to, and the others
SkippedPairs ==
  {allPairs[k] : k \in 1..(pairIdx - 1)}
    \ {selectedPairs[k] : k \in 1..Len(selectedPairs)}
NotConsideredPairs == {allPairs[k] : k \in pairIdx..Len(allPairs)}

\* C24: a pair the greedy pass came to and did not select had an endpoint
\* with 3 selected pairs at that moment, each with a similarity greater than
\* or equal to its own; a pair the pass never came to is left out only when
\* the number of selected pairs has reached floor(1.5 * n).
C24_SkippedForRoomOrTarget ==
  /\ pc \in {"select", "prune", "components", "repair", "done"} =>
       \A p \in SkippedPairs : NoRoomFor(p)
  /\ pc \in {"prune", "components", "repair", "done"} =>
       (NotConsideredPairs # {} =>
          Len(selectedPairs) >= (3 * Len(genreBooks)) \div 2)

\* a pass that skipped a pair for lack of room and then stopped at the
\* target before the end of the list
C24_Witness ==
  /\ pc = "prune"
  /\ SkippedPairs # {}
  /\ NotConsideredPairs # {}

\* the names of the five dimensions, in the order of the score vector
DimensionNames ==
  <<"moody atmosphere", "scientific rigor", "optimistic outlook",
    "philosophical depth", "adventurous spirit">>

\* the score of dimension d, in tenths
ScoreOf(v, d) ==
  <<v.moody, v.scientific, v.optimistic, v.philosophical, v.adventurous>>[d]

\* difference - 0.5 * average of dimension d for simA and simB, as an exact
\* number: 40 times its value
RankKey(d) ==
  4 * (IF ScoreOf(simA, d) > ScoreOf(simB, d)
       THEN ScoreOf(simA, d) - ScoreOf(simB, d)
       ELSE ScoreOf(simB, d) - ScoreOf(simA, d))
    - (ScoreOf(simA, d) + ScoreOf(simB, d))

\* the average of dimension d is above 0.5
HighAverage(d) == ScoreOf(simA, d) + ScoreOf(simB, d) > 10

\* at most one dimension ranks strictly before d
TopRanked(d) == Cardinality({o \in 1..5 : RankKey(o) < RankKey(d)}) <= 1

\* r1 and r2 are the first and the second of a ranking of the dimensions
TopTwo(r1, r2) ==
  /\ r1 # r2
  /\ RankKey(r1) <= RankKey(r2)
  /\ \A o \in (1..5) \ {r1, r2} : RankKey(r2) <= RankKey(o)

Mentioned(d) == \E i \in 1..Len(simReason) : simReason[i] = DimensionNames[d]

IsDimensionName(piece) == \E d \in 1..5 : piece = DimensionNames[d]

\* C12: generateConnectionReason names a dimension only if it is one of the
\* two top-ranked (lowest difference - 0.5 * average) and its average is
\* above 0.5; for two books scoring 0.9 on philosophical and 0.1 elsewhere
\* the text names the philosophical dimension and no other.
C12_OnlyStrongTopTwo ==
  simpc = "reasoned" =>
    /\ \A d \in 1..5 : Mentioned(d) => (TopRanked(d) /\ HighAverage(d))
    /\ (simA = SentimentScores(<<1, 1, 1, 9, 1>>) /\ simB = simA)
         => {d \in 1..5 : Mentioned(d)} = {4}

\* the first of the ranking has an average of at most 0.5 and is left out,
\* the second is named
C12_Witness ==
  /\ simpc = "reasoned"
  /\ \E r1, r2 \in 1..5 :
        /\ TopTwo(r1, r2)
        /\ \A o \in (1..5) \ {r1, r2} : RankKey(r2) < RankKey(o)
        /\ RankKey(r1) < RankKey(r2)
        /\ ~HighAverage(r1) /\ ~Mentioned(r1)
        /\ Mentioned(r2)

\* the integer nearest to similarity * 100, a half counted upwards
SimilarityPercent ==
  CHOOSE n \in 0..101 :
    /\ ~FLt(FMul(FMul(simResult, FromInt(100)), FromInt(2)), FromInt(2 * n - 1))
    /\ FLt(FMul(FMul(simResult, FromInt(100)), FromInt(2)), FromInt(2 * n + 1))

\* the text for the ranking that starts with r1 and r2 and the percentage n
ReasonAsSpecified(r1, r2, n) ==
  /\ \E i \in 1..Len(simReason) : simReason[i] = ToString(n)
  /\ (~HighAverage(r1) /\ ~HighAverage(r2))
       <=> simReason =
             <<"These works share a ", ToString(n),
               "% thematic similarity based on their emotional and intellectual profiles.">>
  /\ (HighAverage(r1) \/ HighAverage(r2)) =>
       /\ SelectSeq(simReason, IsDimensionName)
            = [i \in 1..Len(SelectSeq(<<r1, r2>>, HighAverage)) |->
                 DimensionNames[SelectSeq(<<r1, r2>>, HighAverage)[i]]]
       /\ (HighAverage(r1) /\ HighAverage(r2))
            => \E i \in 1..Len(simReason) : simReason[i] = " and "
       /\ SubSeq(simReason, Len(simReason) - 2, Len(simReason))
            = <<". Overall ", ToString(n), "% thematic match.">>

\* C13: the text of generateConnectionReason always holds the figure
\* round(similarity * 100); it is the fallback sentence exactly when
\* neither of the two top-ranked dimensions has an average above 0.5, and
\* otherwise the qualifying clauses joined, followed by the overall
\* percentage.
C13_PercentAlways ==
  simpc = "reasoned" =>
    \E r1, r2 \in 1..5 :
      TopTwo(r1, r2) /\ ReasonAsSpecified(r1, r2, SimilarityPercent)

\* two clauses, and a percentage that rounding upwards gives
C13_Witness ==
  /\ simpc = "reasoned"
  /\ Cardinality({d \in 1..5 : Mentioned(d)}) = 2
  /\ SimilarityPercent = 82

\* the table has an entry for the two genres in one direction or the other
HasEntry(g, h) ==
  Lookup(g, h) # Undefined \/ Lookup(h, g) # Undefined

\* C16 as stated: calculateGenreSimilarity returns weight 1.0 with the
\* reason "Same category" for two identical categories, and weight 0.3 with
\* the reason "Shared heritage" for two distinct categories without an entry
\* of the table in either direction.
C16_SameAndDefault ==
  genrepc = "returned" =>
    /\ firstGenre = secondGenre
         => genreResult = [weight |-> 100, reason |-> "Same category"]
    /\ (firstGenre # secondGenre /\ ~HasEntry(firstGenre, secondGenre))
         => genreResult = [weight |-> 30, reason |-> "Shared heritage"]

\* the book has a vector of five scores
HasVector(book) ==
  /\ "sentimentScores" \in DOMAIN book
  /\ DOMAIN book.sentimentScores
       = {"moody", "scientific", "optimistic", "philosophical", "adventurous"}
  /\ \A d \in 1..5 : ScoreOf(book.sentimentScores, d) \in 0..10

\* the book has the vector with 0.5 in its five components
IsNeutral(book) ==
  book.sentimentScores =
    [moody |-> 5, scientific |-> 5, optimistic |-> 5, philosophical |-> 5,
     adventurous |-> 5]

\* C18: every book of the list handed to the build, and of every cached
\* list, has a vector; in the genre path and in the search path a book whose
\* id is missing from the scoring response has the vector with 0.5 in its
\* five components.
C18_FallbackVector ==
  /\ \A k \in 1..Len(genreBooks) : HasVector(genreBooks[k])
  /\ \A g \in DOMAIN booksCacheRef :
       \A k \in 1..Len(booksCacheRef[g]) : HasVector(booksCacheRef[g][k])
  /\ sentimentData # Undefined =>
       \A k \in 1..Len(genreBooks) :
         genreBooks[k].id \notin DOMAIN sentimentData.sentiments
           => IsNeutral(genreBooks[k])

\* the list of a genre cycle whose response lacked the first book, beside
\* the cached list of a search cycle whose response lacked the searched book
C18_Witness ==
  /\ sentimentData # Undefined
  /\ sentimentData.path = "genre"
  /\ Len(genreBooks) = 2
  /\ genreBooks[1].id \notin DOMAIN sentimentData.sentiments
  /\ genreBooks[2].id \in DOMAIN sentimentData.sentiments
  /\ IsNeutral(genreBooks[1]) /\ ~IsNeutral(genreBooks[2])
  /\ Genres[1] \in DOMAIN booksCacheRef
  /\ Len(booksCacheRef[Genres[1]]) = 3
  /\ booksCacheRef[Genres[1]][1].id = 5
  /\ IsNeutral(booksCacheRef[Genres[1]][1])
  /\ ~IsNeutral(booksCacheRef[Genres[1]][2])

\* C19 as stated: when no cycle is in flight and no error is shown, the
\* books of the list the build works on are books of the selected genre,
\* whatever the order of the handler calls and of the responses was.
C19_ListOfSelectedGenre ==
  (Len(inFlight) = 0 /\ error = "null") =>
    \A k \in 1..Len(genreBooks) : genreBooks[k].genre = selectedGenre

\* C20 as stated: at any time at most one cycle is in flight for a genre.
C20_OneInFlightPerGenre ==
  \A g \in FetchGenres :
    Cardinality({i \in 1..Len(inFlight) : inFlight[i].genre = g}) <= 1

\* the ids of a list of books, in order
IdsInOrder(books) == [k \in 1..Len(books) |-> books[k].id]

\* the step in which the cycle at place i, waiting for /api/sentiment, ends
SentimentStageEnds(i) ==
  /\ inFlight[i].stage = "sentiment"
  /\ inFlight' = Remove(inFlight, i)

\* C22 as stated: whatever the scoring response of a cycle is, the cycle
\* ends with the list of its fetched books, each with a vector, as the list
\* the graph is built from; a failed scoring request does not leave the
\* cycle without a list.
C22_ScoringFailureDegrades ==
  [][\A i \in 1..Len(inFlight) :
       SentimentStageEnds(i) =>
         /\ IdsInOrder(genreBooks') = IdsInOrder(inFlight[i].books)
         /\ \A k \in 1..Len(genreBooks') : HasVector(genreBooks'[k])]_vars

\* C28: a genre whose cycle has completed successfully stays in the cache,
\* and every later handleGenreClick of that genre takes the cached list as
\* the list of books and starts no request: no cycle is added and the loading
\* state stays as it is.
C28_CachedGenreNoRequest ==
  [][/\ DOMAIN booksCacheRef \subseteq DOMAIN booksCacheRef'
     /\ \A g \in FetchGenres :
          (g \in DOMAIN booksCacheRef /\ GenreClick(g)) =>
             /\ genreBooks' = booksCacheRef[g]
             /\ inFlight' = inFlight
             /\ loadingState' = loadingState]_vars

\* the state after handleGenreClick of a cached genre: its cached list is
\* shown, nothing is in flight, and the other genre is cached too
C28_Witness ==
  /\ FetchGenres \subseteq DOMAIN booksCacheRef
  /\ selectedGenre = Genres[1] /\ viewMode = "books"
  /\ highlightedBookId = 0
  /\ genreBooks = booksCacheRef[Genres[1]]
  /\ sentimentData = Undefined
  /\ error = "null" /\ loadingState = "idle"
  /\ inFlight = <<>>

\* the messages of the three throws of fetchBooksForGenre
FetchFailureMessages ==
  {"Failed to fetch books from Open Library", "No books found for this genre",
   "Failed to generate sentiment scores"}

\* a step in which a request of the fetchBooksForGenre cycle at place i
\* fails: /api/books answers not ok or with no book, or /api/sentiment
\* answers not ok
FetchStepFails(i) ==
  /\ inFlight[i].path = "genre"
  /\ \/ \E response \in BooksResponses(inFlight[i].genre) :
          /\ ~response.ok \/ Len(response.books) = 0
          /\ BooksResponseWith(i, response)
     \/ /\ inFlight[i].stage = "sentiment"
        /\ \E response \in SentimentResponses(inFlight[i].books) :
             /\ ~response.ok
             /\ SentimentResponseWith(i, response)

\* the step in which the first of the cycles in flight ends with the
\* loading state set to idle
FirstCycleEndsIdle ==
  /\ Len(inFlight) >= 1
  /\ inFlight' = Tail(inFlight)
  /\ loadingState' = "idle"

\* C30: a step in which a request of fetchBooksForGenre fails sets the error
\* message, leaves the cache and the list of books as they are and sets the
\* loading state to idle; every step that ends a cycle sets the loading
\* state to idle; and when every pending request resolves, every started
\* cycle ends: either no cycle is in flight again and again, or the oldest
\* cycle in flight ends again and again.
C30_FailureSetsErrorAndIdle ==
  /\ [][/\ \A i \in 1..Len(inFlight) :
            FetchStepFails(i) =>
              /\ error' \in FetchFailureMessages
              /\ booksCacheRef' = booksCacheRef
              /\ genreBooks' = genreBooks
              /\ loadingState' = "idle"
        /\ Len(inFlight') < Len(inFlight) => loadingState' = "idle"]_vars
  /\ \/ []<>(inFlight = <<>>)
     \/ []<><<FirstCycleEndsIdle>>_vars

\* after a successful cycle of one genre, a cycle of the other genre has
\* failed: the error is shown over the list and the cache of the first
C30_Witness ==
  /\ error \in FetchFailureMessages
  /\ loadingState = "idle" /\ inFlight = <<>>
  /\ selectedGenre = Genres[4]
  /\ DOMAIN booksCacheRef = {Genres[1]}
  /\ genreBooks = booksCacheRef[Genres[1]]
  /\ Len(genreBooks) >= 1

\* the calls of generateText that have started and not ended
CallsInFlight == {k \in 1..Len(callState) : callState[k] = "pending"}

\* the number of the batch of the book at place k, batches of 5
BatchOf(k) == ((k - 1) \div 5) + 1

\* C29: at any time at most 5 calls of generateText are in flight, and a
\* call of a later batch has started only when every call of every earlier
\* batch has ended, with an output or with the fallback.
C29_SequentialBatches ==
  /\ Cardinality(CallsInFlight) <= 5
  /\ \A k, j \in 1..Len(callState) :
       (callState[k] # "idle" /\ BatchOf(j) < BatchOf(k))
         => callState[j] \notin {"idle", "pending"}

\* the call of the sixth book is in flight after the five calls of the
\* first batch have ended, one of them with a throw
C29_Witness ==
  /\ Len(callState) >= 6
  /\ callState[6] = "pending"
  /\ \A k \in 1..5 : callState[k] \in {"output", "throws", "empty"}
  /\ \E k \in 1..5 : callState[k] = "throws"
  /\ scorepc = "await"

\* C21 as stated: in an answered request a throw of the call of one book
\* does not take the scores from another book, each book whose call gave an
\* output has that output, and each book whose call threw has the vector
\* with 0.5 in its five components.
C21_FailedEntityNeutral ==
  (scorepc = "returned" /\ scoreResponse.status = 200) =>
    \A k \in 1..Len(scoreBooks) :
      /\ callState[k] = "output" =>
           /\ scoreBooks[k].id \in DOMAIN scoreResponse.sentiments
           /\ scoreResponse.sentiments[scoreBooks[k].id]
                = ServiceScores(scoreBooks[k].id)
      /\ callState[k] = "throws" =>
           /\ scoreBooks[k].id \in DOMAIN scoreResponse.sentiments
           /\ scoreResponse.sentiments[scoreBooks[k].id]
                = SentimentScores(<<5, 5, 5, 5, 5>>)

\* a score outside [0, 1], in tenths
OutOfRange(scores) ==
  \E t \in {scores.moody, scores.scientific, scores.optimistic,
             scores.philosophical, scores.adventurous} : t < 0 \/ t > 10

\* C14 as stated: when a book of the list has a score outside [0, 1] the
\* build ends in an InvalidEntityError and returns no graph.
C14_InvalidRejected ==
  (\E k \in 1..Len(genreBooks) : OutOfRange(genreBooks[k].sentimentScores))
    => /\ pc # "done"
       /\ bookGraphData = [nodes |-> <<>>, links |-> <<>>]

\* C15 as stated: when a run of the build has returned, calculateSimilarity
\* has been called exactly once on every pair of distinct nodes, also in a
\* run whose repair added links.
C15_OncePerPair ==
  pc = "done" =>
    \A i \in 1..Len(genreBooks) : \A j \in (i + 1)..Len(genreBooks) :
      <<i, j>> \in DOMAIN similarityCalls /\ similarityCalls[<<i, j>>] = 1

\* C17: with highlightedBookId null and a list that is not empty, the
\* searched index of the repair is that of the first book, and every link
\* added by the repair ends at the first book.
C17_DefaultAnchorFirst ==
  (highlightedBookId = 0 /\ Len(genreBooks) >= 1 /\ pc \in {"repair", "done"}) =>
    /\ searchedIdx = 1
    /\ \A k \in 1..Len(RepairLinks) :
         RepairLinks[k].target = genreBooks[1].id

C17_Witness ==
  /\ highlightedBookId = 0 /\ pc = "done"
  /\ Len(RepairLinks) >= 2
  /\ \E k \in 1..Len(RepairLinks) : RepairLinks[k].source = genreBooks[Len(genreBooks)].id

====
